---- MODULE Spec2Model ----
(***************************************************************************)
(* Model of the per-team VPN provisioning scripts of ctf-gameserver:       *)
(*   src/vpnconfig.py         WireGuard variant   (specification SpecWG)   *)
(*   src/gamectrl/openvpn.py  OpenVPN variant     (specification SpecOV)   *)
(*                                                                         *)
(* One invocation of a script is a run of its main(): it is broken into    *)
(* steps at every external command and every file write, because each of   *)
(* them can fail (an exception, or a non-zero exit status) and the files   *)
(* written before the failing step stay on disk.  pc is the position of    *)
(* the running invocation, "idle" between invocations.                     *)
(*                                                                         *)
(* File and interface names are sequences of tokens (a token is one        *)
(* character or an unsplit chunk of characters), so that the name tests    *)
(* of the code (startswith, isdigit, glob) are computed on the name.       *)
(* Keys are opaque: a private key is a positive integer, its public key    *)
(* the negated integer; a generated key differs from every key held        *)
(* anywhere in the state.  The key numbers of one owner (the server: 0, a  *)
(* team: its net_number) are owner * KeyStride + 1..MaxKeys.               *)
(***************************************************************************)
EXTENDS Integers, Sequences, FiniteSets, TLC

VARIABLES
    pc,         \* position of the running invocation
    loc,        \* its arguments and local variables
    exitCode,   \* exit code of the invocation, read when pc = "done"
    faults,     \* number of failed external commands / file writes so far
    downloads,  \* downloads root: team directory name -> (file name -> content)
    wgdir,      \* /etc/wireguard: file name -> content
    up,         \* WireGuard interfaces up: interface name -> definition loaded
    dirs,       \* which of SERVER_DIR, DOWNLOADS_DIR, PKI_DIR exist (OpenVPN)
    pki,        \* PKI_DIR/pki: the CA, the tls-auth key, the issued certificates
    serverdir,  \* SERVER_DIR: file name -> content
    units,      \* active openvpn-server@ units: unit name -> what it loaded
    forward,    \* FORWARD chain: copies of the tun+ <-> wg+ bridge rule pair
    db          \* the gameserver database: rows of each table, scoring_gamecontrol

vars == <<pc, loc, exitCode, faults, downloads, wgdir, up, dirs, pki, serverdir, units, forward, db>>
wgvars == <<wgdir, up>>
ovvars == <<dirs, pki, serverdir, units, forward>>

\* ------------------------------------------------------------------ bounds
MaxNet == 2         \* net_numbers 1..MaxNet can be registered
MaxFaults == 1      \* failing external commands / file writes per behaviour
MaxKeys == 3        \* distinct private keys of one owner alive at the same time
MaxForward == 2     \* copies of one FORWARD rule that are told apart
MaxRows == 1        \* rows a database table can hold
MaxTick == 1        \* highest current_tick of the game

TeamNets == 1..MaxNet

None == "None"

\* ------------------------------------------------------------------ names
Digits == {"0", "1", "2", "3", "4", "5", "6", "7", "8", "9"}
DigitChars == <<"0", "1", "2", "3", "4", "5", "6", "7", "8", "9">>

RECURSIVE NatStr(_)
NatStr(n) ==
    IF n < 10 THEN <<DigitChars[n + 1]>>
    ELSE NatStr(n \div 10) \o <<DigitChars[(n % 10) + 1]>>

\* str(n) / f"{n}" of a Python int
Str(n) == IF n < 0 THEN <<"-">> \o NatStr(-n) ELSE NatStr(n)

\* str.isdigit(): non-empty and every character a digit
IsDigit(s) == Len(s) > 0 /\ \A i \in 1..Len(s) : s[i] \in Digits

\* iface = f"wg{net}"
IfaceName(net) == <<"wg">> \o Str(net)

\* iface.startswith("wg") and iface[2:].isdigit()
IsOurIface(iface) == Len(iface) >= 1 /\ iface[1] = "wg" /\ IsDigit(Tail(iface))

SERVER_PRIV == <<"server", ".priv">>
SERVER_PUB == <<"server", ".pub">>
PRIVATE_KEY == <<"private", ".key">>
PUBLIC_KEY == <<"public", ".key">>
VPN_CONF == <<"vpn", ".conf">>

\* wg_dir / f"{iface}.conf"
WgConfName(iface) == iface \o <<".conf">>

\* wg_dir.glob("wg*.conf")
GlobWgConf(name) == Len(name) >= 2 /\ name[1] = "wg" /\ name[Len(name)] = ".conf"

\* ------------------------------------------------------------------- keys
\* wg pubkey: the public key of a private key
WgPubkey(priv) == 0 - priv

KeyOf(k) == IF k < 0 THEN 0 - k ELSE k

\* the keys a file of the WireGuard directory holds
WgFileKeys(name, c) ==
    IF name \in {SERVER_PRIV, SERVER_PUB} THEN {KeyOf(c)}
    ELSE {KeyOf(c.PrivateKey), KeyOf(c.PeerPublicKey)}

PLAYER_OVPN == <<"player", ".ovpn">>
README_TXT == <<"README", ".txt">>

\* the keys a file of a team directory holds
TeamFileKeys(name, c) ==
    IF name \in {PRIVATE_KEY, PUBLIC_KEY} THEN {KeyOf(c)}
    ELSE IF name = VPN_CONF THEN {KeyOf(c.PrivateKey), KeyOf(c.PublicKey)}
    ELSE IF name = PLAYER_OVPN THEN {c.ca, c.cert.key, c.cert.ca, c.key, c.ta}
    ELSE {}

\* 0 stands for "no key" in a local variable
LocKeysOf(l) ==
    ({KeyOf(k) : k \in {l.s_priv, l.c_priv, l.old_cpriv}} \ {0})
    \cup (IF l.server_keys = <<>> THEN {} ELSE {KeyOf(l.server_keys[1])})

\* the keys held by the running invocation and by a suspended concurrent one
LocKeys ==
    LocKeysOf(loc)
    \cup (IF loc.other = <<>> THEN {} ELSE LocKeysOf(loc.other[1].loc))

UsedKeys ==
    UNION {WgFileKeys(n, wgdir[n]) : n \in DOMAIN wgdir}
    \cup UNION {WgFileKeys(WgConfName(i), up[i]) : i \in DOMAIN up}
    \cup UNION {UNION {TeamFileKeys(n, downloads[d][n]) : n \in DOMAIN downloads[d]}
                : d \in DOMAIN downloads}
    \cup LocKeys
    \cup ({pki.ca, pki.ta} \ {0})
    \cup UNION {{pki.certs[n].key, pki.certs[n].ca} : n \in DOMAIN pki.certs}
    \cup UNION {{units[u].ca, units[u].key} : u \in DOMAIN units}

KeyStride == MaxKeys + 1
KeyIds(owner) == {owner * KeyStride + j : j \in 1..MaxKeys}

CanGenKey(owner) == \E k \in KeyIds(owner) : k \notin UsedKeys

\* wg genkey: a key no file, interface or variable holds
FreshKey(owner) ==
    CHOOSE k \in KeyIds(owner) :
        k \notin UsedKeys /\ \A j \in KeyIds(owner) : j < k => j \in UsedKeys

\* -------------------------------------------------------------- functions
EmptyFn == <<>>

\* f with x mapped to v (x added to the domain when new)
Put(f, x, v) == [y \in (DOMAIN f) \cup {x} |-> IF y = x THEN v ELSE f[y]]

\* f without the keys in S
Drop(f, S) == [y \in (DOMAIN f) \ S |-> f[y]]

RECURSIVE SortedSeq(_)
SortedSeq(S) ==
    IF S = {} THEN <<>>
    ELSE LET m == CHOOSE x \in S : \A y \in S : x <= y
         IN <<m>> \o SortedSeq(S \ {m})

\* ------------------------------------------------------------ configuration
BASE_PORT == 51820      \* --base-port default
PREFIX == "10.32"
ENDPOINT == "x3ero0.dev"
DNS == "10.32.0.1"

Flags == {"all", "single", "reset", "down", "up"}

\* no PKI: no CA certificate, no tls-auth key, no issued certificate
PkiInit == [ca |-> 0, ta |-> 0, certs |-> EmptyFn]

\* a umask, as the permission classes whose read bit it takes away
UMASK_077 == {"group", "other"}

\* umask an invocation starts with: 022 in a root shell, no read bit masked
InheritedUmask == {}

\* who can read a file that write_text creates under the umask
Readers(umask) == {"owner", "group", "other"} \ umask

\* the tables basic_reset must leave alone and the game data tables
KeptTables ==
    {"registration_team", "scoring_service", "auth_user", "django_session"}
GameDataTables ==
    {"scoring_capture", "scoring_scoreboard", "scoring_statuscheck",
     "scoring_checkerstate", "scoring_flag", "vpnstatus_vpnstatuscheck"}
\* the other tables full_reset clears
AuxTables ==
    {"registration_teamdownload", "flatpages_flatpage", "flatpages_category",
     "django_admin_log", "auth_user_groups", "auth_user_user_permissions"}
Tables == KeptTables \cup GameDataTables \cup AuxTables

\* DEFAULT_CONFIG, ADMIN_CONFIG: of the columns of scoring_gamecontrol the
\* model keeps current_tick and registration_open
DEFAULT_CONFIG == [current_tick |-> 0, registration_open |-> TRUE]
ADMIN_CONFIG == [username |-> "admin"]

\* the database of a fresh installation: no rows, the one row of
\* scoring_gamecontrol with its defaults
DbFresh == [rows |-> [t \in Tables |-> {}], gamecontrol |-> {DEFAULT_CONFIG}]

LocInit ==
    [ fn |-> None,           \* function main dispatched to
      flags |-> {},          \* selector flags of the command line
      net_number |-> <<>>,   \* --net-number: <<>> when not given, else <<n>>
      base_port |-> BASE_PORT, \* --base-port
      umask |-> InheritedUmask, \* process umask
      caller |-> None,       \* caller of generate_team_config / bring_all_down
      net |-> <<>>,          \* team being processed: <<n>>
      nets |-> <<>>,         \* teams still to process (the one in progress first)
      server_keys |-> <<>>,  \* (server_priv, server_pub) in use, <<>> for None
      s_priv |-> 0,          \* generated server key not yet written
      c_priv |-> 0,          \* generated client key
      old_cpriv |-> 0,       \* client private key on disk when the team step began
      old_conf |-> {},       \* the team's server-side definition on disk then, if any
      old_profile |-> {},    \* the team's client profile on disk then, if any
      startFailed |-> FALSE, \* the start command of the team step failed
      wasUp |-> FALSE,       \* interface up when the team step began
      calls |-> <<>>,        \* stop / write / start of the team step, in order
      teamDone |-> FALSE,    \* generate_team_config returned normally
      interfaces |-> <<>>,   \* interfaces / services / configs still to stop / start
      all_teams |-> <<>>,    \* team list passed to create_team_config, <<>> for None
      failed |-> {},         \* teams whose failure was logged
      stmts |-> <<>>,        \* SQL statements the reset has still to execute
      config |-> DEFAULT_CONFIG, \* DEFAULT_CONFIG after the --set options
      admin |-> ADMIN_CONFIG,    \* ADMIN_CONFIG after the --set options
      before |-> DbFresh,        \* the database when the connection was opened
      set |-> <<>>,              \* args.set
      confirm |-> "",            \* the answer read at the prompt
      ran |-> {},                \* interfaces up when a command sequence began
      then |-> <<>>,             \* functions the command sequence still runs
      other |-> <<>> ]       \* a concurrent run that is not on the CPU: its pc,
                             \* locals and exit code; <<>> when there is none


\* ------------------------------------------------------------ WireGuard
CanFault == faults < MaxFaults

\* sys.exit(code), or the interpreter ending on an uncaught exception (code 1)
ExitWith(code) == pc' = "done" /\ exitCode' = code

\* the order in which a discovered set is processed
RECURSIVE SeqOf(_)
SeqOf(S) ==
    IF S = {} THEN <<>>
    ELSE LET x == CHOOSE y \in S : TRUE IN <<x>> \o SeqOf(S \ {x})

\* get_existing_wg_interfaces(): the interfaces `wg show interfaces` lists
\* (those that are up) whose name is wg<digits>
get_existing_wg_interfaces == {i \in DOMAIN up : IsOurIface(i)}

\* main(): the function the selector flags route to
main_dispatch(flags) ==
    IF "all" \in flags THEN "mode_all"
    ELSE IF "single" \in flags THEN "mode_single"
    ELSE IF "reset" \in flags THEN "reset_all_configs"
    ELSE IF "down" \in flags THEN "bring_all_down"
    ELSE IF "up" \in flags THEN "bring_all_down"
    ELSE None

Entry(fn) ==
    CASE fn = "mode_all" -> "all_db"
      [] fn = "mode_single" -> "single_check"
      [] fn = "reset_all_configs" -> "down_discover"
      [] fn = "bring_all_down" -> "down_discover"
      [] fn = "bring_all_up" -> "up_discover"

\* the command lines enumerated: one selector flag (or none), --net-number
\* given with --single only
Invocations ==
    {<<{f}, <<>>>> : f \in Flags} \cup {<<{}, <<>>>>}
    \cup {<<{"single"}, <<n>>>> : n \in TeamNets}

\* a rendering that writes the base port as the listen port of every team
WgConfBasePort(net, port, server_priv, c_pub) ==
    [ Address |-> <<PREFIX, net, 1, 24>>,
      ListenPort |-> BASE_PORT,
      PrivateKey |-> server_priv,
      Iface |-> IfaceName(net),
      PeerPublicKey |-> c_pub,
      AllowedIPs |-> <<PREFIX, net, 2, 32>> ]

\* a rendering that writes the base port into the endpoint of every profile
VpnConfBasePort(net, port, c_priv, server_pub) ==
    [ PrivateKey |-> c_priv,
      Address |-> <<PREFIX, net, 2, 24>>,
      DNS |-> DNS,
      PublicKey |-> server_pub,
      Endpoint |-> <<ENDPOINT, BASE_PORT>>,
      AllowedIPs |-> <<PREFIX, 0, 0, 16>> ]

\* a rendering that writes the client's own public key into the profile
VpnConfOwnKey(net, port, c_priv, server_pub) ==
    [ PrivateKey |-> c_priv,
      Address |-> <<PREFIX, net, 2, 24>>,
      DNS |-> DNS,
      PublicKey |-> WgPubkey(c_priv),
      Endpoint |-> <<ENDPOINT, port>>,
      AllowedIPs |-> <<PREFIX, 0, 0, 16>> ]

\* the rendered server interface file wg<net>.conf
WgConf(net, port, server_priv, c_pub) ==
    [ Address |-> <<PREFIX, net, 1, 24>>,
      ListenPort |-> port,
      PrivateKey |-> server_priv,
      Iface |-> IfaceName(net),
      PeerPublicKey |-> c_pub,
      AllowedIPs |-> <<PREFIX, net, 2, 32>> ]

\* the rendered client profile vpn.conf
VpnConf(net, port, c_priv, server_pub) ==
    [ PrivateKey |-> c_priv,
      Address |-> <<PREFIX, net, 2, 24>>,
      DNS |-> DNS,
      PublicKey |-> server_pub,
      Endpoint |-> <<ENDPOINT, port>>,
      AllowedIPs |-> <<PREFIX, 0, 0, 16>> ]

\* a key check that reports the server key files as missing every time
ServerKeysNeverFound == FALSE

\* not server_priv_path.exists() or not server_pub_path.exists(), negated
ServerKeysExist == SERVER_PRIV \in DOMAIN wgdir /\ SERVER_PUB \in DOMAIN wgdir

TeamDir(net) == Str(net)

\* a main() without the root check: it dispatches whoever runs it
WGMainNoRootCheck ==
    /\ pc = "idle"
    /\ \E isRoot \in BOOLEAN, inv \in Invocations :
         LET fn == main_dispatch(inv[1]) IN
         /\ loc' = [LocInit EXCEPT !.flags = inv[1], !.net_number = inv[2],
                                   !.fn = IF isRoot THEN fn ELSE None,
                                   !.caller = IF isRoot THEN fn ELSE None]
         /\ IF fn = None THEN ExitWith(0)
            ELSE pc' = Entry(fn) /\ exitCode' = exitCode
    /\ UNCHANGED <<faults, downloads, wgdir, up, ovvars, db>>

\* main(): root check, parse_args, dispatch
WGMain ==
    /\ pc = "idle"
    /\ \E isRoot \in BOOLEAN, inv \in Invocations :
         LET fn == main_dispatch(inv[1]) IN
         /\ loc' = [LocInit EXCEPT !.flags = inv[1], !.net_number = inv[2],
                                   !.fn = IF isRoot THEN fn ELSE None,
                                   !.caller = IF isRoot THEN fn ELSE None]
         /\ IF ~isRoot THEN ExitWith(1)
            ELSE IF fn = None THEN ExitWith(0)
            ELSE pc' = Entry(fn) /\ exitCode' = exitCode
    /\ UNCHANGED <<faults, downloads, wgdir, up, ovvars, db>>

\* bring_all_up(args) called as a function: main() never routes to it
CallBringAllUp ==
    /\ pc = "idle"
    /\ loc' = [LocInit EXCEPT !.fn = "bring_all_up", !.caller = "bring_all_up"]
    /\ pc' = Entry("bring_all_up")
    /\ UNCHANGED <<exitCode, faults, downloads, wgdir, up, ovvars, db>>

\* the process has ended; the next invocation starts from its own locals
Exit ==
    /\ pc = "done"
    /\ pc' = "idle"
    /\ loc' = LocInit
    /\ exitCode' = 0
    /\ UNCHANGED <<faults, downloads, wgdir, up, ovvars, db>>


\* ---- generate_team_config(net, args, server_keys)

\* the call: the locals of a new team step
BeginTeam(l, net, caller) ==
    [l EXCEPT !.net = <<net>>, !.caller = caller,
              !.s_priv = 0, !.c_priv = 0,
              !.old_cpriv = IF TeamDir(net) \in DOMAIN downloads
                               /\ PRIVATE_KEY \in DOMAIN downloads[TeamDir(net)]
                            THEN downloads[TeamDir(net)][PRIVATE_KEY] ELSE 0,
              !.old_conf = IF WgConfName(IfaceName(net)) \in DOMAIN wgdir
                           THEN {wgdir[WgConfName(IfaceName(net))]} ELSE {},
              !.old_profile = IF TeamDir(net) \in DOMAIN downloads
                                 /\ VPN_CONF \in DOMAIN downloads[TeamDir(net)]
                              THEN {downloads[TeamDir(net)][VPN_CONF]} ELSE {},
              !.wasUp = IfaceName(net) \in DOMAIN up,
              !.calls = <<>>, !.teamDone = FALSE, !.startFailed = FALSE]

GenEntry(l) == IF l.server_keys = <<>> THEN "g_srvkeys" ELSE "g_stop"

\* an exception leaves generate_team_config: mode_all logs it and goes on with
\* the next team, mode_single logs it and exits 1
GenRaise(l) ==
    IF l.caller = "mode_all"
    THEN /\ loc' = [l EXCEPT !.failed = @ \cup {l.net[1]}, !.nets = Tail(@)]
         /\ pc' = "all_loop"
         /\ exitCode' = exitCode
    ELSE /\ loc' = l
         /\ ExitWith(1)

\* generate_team_config returns
GenReturn(l) ==
    IF l.caller = "mode_all"
    THEN /\ loc' = [l EXCEPT !.teamDone = TRUE, !.nets = Tail(@)]
         /\ pc' = "all_loop"
         /\ exitCode' = exitCode
    ELSE /\ loc' = [l EXCEPT !.teamDone = TRUE]
         /\ ExitWith(0)

\* server keypair check; wg genkey | wg pubkey when a key file is missing
GenServerKeys ==
    /\ pc = "g_srvkeys"
    /\ IF ServerKeysExist
       THEN /\ loc' = [loc EXCEPT !.server_keys = <<wgdir[SERVER_PRIV], wgdir[SERVER_PUB]>>]
            /\ pc' = "g_stop"
            /\ UNCHANGED <<exitCode, faults>>
       ELSE \/ /\ CanGenKey(0)
               /\ loc' = [loc EXCEPT !.s_priv = FreshKey(0), !.umask = UMASK_077]
               /\ pc' = "g_wpriv"
               /\ UNCHANGED <<exitCode, faults>>
            \/ /\ CanFault
               /\ faults' = faults + 1
               /\ GenRaise([loc EXCEPT !.umask = UMASK_077])
    /\ UNCHANGED <<downloads, wgdir, up, ovvars, db>>

\* priv.write_text(s_priv)
GenWriteServerPriv ==
    /\ pc = "g_wpriv"
    /\ \/ /\ wgdir' = Put(wgdir, SERVER_PRIV, loc.s_priv)
          /\ pc' = "g_wpub"
          /\ UNCHANGED <<loc, exitCode, faults>>
       \/ /\ CanFault
          /\ faults' = faults + 1
          /\ GenRaise(loc)
          /\ UNCHANGED wgdir
    /\ UNCHANGED <<downloads, up, ovvars, db>>

\* pub.write_text(s_pub); then both files are read back
GenWriteServerPub ==
    /\ pc = "g_wpub"
    /\ \/ /\ wgdir' = Put(wgdir, SERVER_PUB, WgPubkey(loc.s_priv))
          /\ loc' = [loc EXCEPT !.server_keys = <<wgdir'[SERVER_PRIV], wgdir'[SERVER_PUB]>>,
                                !.s_priv = 0]
          /\ pc' = "g_stop"
          /\ UNCHANGED <<exitCode, faults>>
       \/ /\ CanFault
          /\ faults' = faults + 1
          /\ GenRaise(loc)
          /\ UNCHANGED wgdir
    /\ UNCHANGED <<downloads, up, ovvars, db>>

\* stop_interface(iface): systemctl stop / disable with check=False, so a
\* failing command is not noticed and the interface stays up
stop_interface(iface) ==
    \/ /\ up' = Drop(up, {iface})
       /\ faults' = faults
    \/ /\ CanFault
       /\ iface \in DOMAIN up
       /\ faults' = faults + 1
       /\ up' = up

\* "Check if interface exists and stop it"
GenStop ==
    /\ pc = "g_stop"
    /\ LET iface == IfaceName(loc.net[1]) IN
       IF iface \in get_existing_wg_interfaces
       THEN /\ stop_interface(iface)
            /\ loc' = [loc EXCEPT !.calls = Append(@, "stop")]
       ELSE /\ loc' = loc
            /\ UNCHANGED <<up, faults>>
    /\ pc' = "g_mkdir"
    /\ UNCHANGED <<exitCode, downloads, wgdir, ovvars, db>>

\* team_dir.mkdir(parents=True, exist_ok=True); chmod
GenMkdir ==
    /\ pc = "g_mkdir"
    /\ LET d == TeamDir(loc.net[1]) IN
       \/ /\ downloads' = IF d \in DOMAIN downloads THEN downloads
                          ELSE Put(downloads, d, EmptyFn)
          /\ loc' = [loc EXCEPT !.umask = UMASK_077]
          /\ pc' = "g_ckeys"
          /\ UNCHANGED <<exitCode, faults>>
       \/ /\ CanFault
          /\ faults' = faults + 1
          /\ GenRaise(loc)
          /\ UNCHANGED downloads
    /\ UNCHANGED <<wgdir, up, ovvars, db>>

\* c_priv = wg genkey; c_pub = wg pubkey: on every call
GenClientKeys ==
    /\ pc = "g_ckeys"
    /\ \/ /\ CanGenKey(loc.net[1])
          /\ loc' = [loc EXCEPT !.c_priv = FreshKey(loc.net[1])]
          /\ pc' = "g_wcpriv"
          /\ UNCHANGED <<exitCode, faults>>
       \/ /\ CanFault
          /\ faults' = faults + 1
          /\ GenRaise(loc)
    /\ UNCHANGED <<downloads, wgdir, up, ovvars, db>>

\* write_text of one file of the team directory
\* a write that puts the file into the directory of every team
WriteTeamFileEverywhere(next, name, content) ==
    \/ /\ downloads' = [d \in DOMAIN downloads |-> Put(downloads[d], name, content)]
       /\ pc' = next
       /\ UNCHANGED <<loc, exitCode, faults>>
    \/ /\ CanFault
       /\ faults' = faults + 1
       /\ GenRaise(loc)
       /\ UNCHANGED downloads

WriteTeamFile(next, name, content) ==
    LET d == TeamDir(loc.net[1]) IN
    \/ /\ downloads' = [downloads EXCEPT ![d] = Put(@, name, content)]
       /\ pc' = next
       /\ UNCHANGED <<loc, exitCode, faults>>
    \/ /\ CanFault
       /\ faults' = faults + 1
       /\ GenRaise(loc)
       /\ UNCHANGED downloads

GenWriteClientPriv ==
    /\ pc = "g_wcpriv"
    /\ WriteTeamFile("g_wcpub", PRIVATE_KEY, loc.c_priv)
    /\ UNCHANGED <<wgdir, up, ovvars, db>>

GenWriteClientPub ==
    /\ pc = "g_wcpub"
    /\ WriteTeamFile("g_wconf", PUBLIC_KEY, WgPubkey(loc.c_priv))
    /\ UNCHANGED <<wgdir, up, ovvars, db>>

\* wg_conf.write_text(...)
GenWriteWgConf ==
    /\ pc = "g_wconf"
    /\ LET net == loc.net[1] IN
       \/ /\ wgdir' = Put(wgdir, WgConfName(IfaceName(net)),
                          WgConf(net, loc.base_port + net, loc.server_keys[1],
                                 WgPubkey(loc.c_priv)))
          /\ loc' = [loc EXCEPT !.calls = Append(@, "write")]
          /\ pc' = "g_wvpn"
          /\ UNCHANGED <<exitCode, faults>>
       \/ /\ CanFault
          /\ faults' = faults + 1
          /\ GenRaise(loc)
          /\ UNCHANGED wgdir
    /\ UNCHANGED <<downloads, up, ovvars, db>>

\* vpn_conf.write_text(...)
GenWriteVpnConf ==
    /\ pc = "g_wvpn"
    /\ LET net == loc.net[1] IN
       WriteTeamFile("g_start", VPN_CONF,
                     VpnConf(net, loc.base_port + net, loc.c_priv, loc.server_keys[2]))
    /\ UNCHANGED <<wgdir, up, ovvars, db>>

\* a start that restarts an interface that is up: it loads the definition on
\* disk again, and the interface is gone when the definition is
SystemctlRestart(iface) ==
    IF WgConfName(iface) \in DOMAIN wgdir
    THEN Put(up, iface, wgdir[WgConfName(iface)])
    ELSE Drop(up, {iface})

\* systemctl enable --now wg-quick@<iface>: brings the interface up with the
\* definition on disk; a unit that is already active is left as it runs
SystemctlStart(iface) ==
    IF iface \in DOMAIN up THEN up
    ELSE Put(up, iface, wgdir[WgConfName(iface)])

\* start_interface(iface), then the return
GenStart ==
    /\ pc = "g_start"
    /\ LET iface == IfaceName(loc.net[1])
           l == [loc EXCEPT !.calls = Append(@, "start")] IN
       \/ /\ up' = SystemctlStart(iface)
          /\ GenReturn(l)
          /\ faults' = faults
       \/ /\ CanFault
          /\ faults' = faults + 1
          /\ GenRaise([l EXCEPT !.startFailed = TRUE])
          /\ up' = up
    /\ UNCHANGED <<downloads, wgdir, ovvars, db>>

\* ---- mode_all(args)

\* DB settings, connection, SELECT net_number ... ORDER BY net_number
ModeAllDb ==
    /\ pc = "all_db"
    /\ \/ /\ ExitWith(1)                 \* settings missing or connection failed
          /\ loc' = loc
       \/ \E S \in SUBSET TeamNets :
            IF S = {}
            THEN ExitWith(1) /\ loc' = loc
            ELSE /\ loc' = [loc EXCEPT !.nets = SortedSeq(S)]
                 /\ pc' = "all_srvkeys"
                 /\ exitCode' = exitCode
    /\ UNCHANGED <<faults, downloads, wgdir, up, ovvars, db>>

\* "Ensure server keypair exists for all teams": an exception here is not
\* caught, the process ends with a traceback
ModeAllServerKeys ==
    /\ pc = "all_srvkeys"
    /\ IF ServerKeysExist
       THEN /\ loc' = [loc EXCEPT !.server_keys = <<wgdir[SERVER_PRIV], wgdir[SERVER_PUB]>>]
            /\ pc' = "all_loop"
            /\ UNCHANGED <<exitCode, faults>>
       ELSE \/ /\ CanGenKey(0)
               /\ loc' = [loc EXCEPT !.s_priv = FreshKey(0), !.umask = UMASK_077]
               /\ pc' = "all_wpriv"
               /\ UNCHANGED <<exitCode, faults>>
            \/ /\ CanFault
               /\ faults' = faults + 1
               /\ ExitWith(1)
               /\ loc' = [loc EXCEPT !.umask = UMASK_077]
    /\ UNCHANGED <<downloads, wgdir, up, ovvars, db>>

ModeAllWriteServerPriv ==
    /\ pc = "all_wpriv"
    /\ \/ /\ wgdir' = Put(wgdir, SERVER_PRIV, loc.s_priv)
          /\ pc' = "all_wpub"
          /\ UNCHANGED <<loc, exitCode, faults>>
       \/ /\ CanFault
          /\ faults' = faults + 1
          /\ ExitWith(1)
          /\ UNCHANGED <<loc, wgdir>>
    /\ UNCHANGED <<downloads, up, ovvars, db>>

ModeAllWriteServerPub ==
    /\ pc = "all_wpub"
    /\ \/ /\ wgdir' = Put(wgdir, SERVER_PUB, WgPubkey(loc.s_priv))
          /\ loc' = [loc EXCEPT !.server_keys = <<wgdir'[SERVER_PRIV], wgdir'[SERVER_PUB]>>,
                                !.s_priv = 0]
          /\ pc' = "all_loop"
          /\ UNCHANGED <<exitCode, faults>>
       \/ /\ CanFault
          /\ faults' = faults + 1
          /\ ExitWith(1)
          /\ UNCHANGED <<loc, wgdir>>
    /\ UNCHANGED <<downloads, up, ovvars, db>>

\* for net in nets: try: generate_team_config(net, args, server_keys)
ModeAllLoop ==
    /\ pc = "all_loop"
    /\ IF loc.nets = <<>>
       THEN ExitWith(0) /\ loc' = loc
       ELSE /\ loc' = BeginTeam(loc, Head(loc.nets), "mode_all")
            /\ pc' = GenEntry(loc)
            /\ exitCode' = exitCode
    /\ UNCHANGED <<faults, downloads, wgdir, up, ovvars, db>>

\* ---- mode_single(args)
ModeSingle ==
    /\ pc = "single_check"
    /\ IF loc.net_number = <<>>
       THEN ExitWith(1) /\ loc' = loc
       ELSE /\ loc' = BeginTeam(loc, loc.net_number[1], "mode_single")
            /\ pc' = GenEntry(loc)
            /\ exitCode' = exitCode
    /\ UNCHANGED <<faults, downloads, wgdir, up, ovvars, db>>

\* ---- bring_all_down(args), bring_all_up(args), reset_all_configs(args)

\* bring_all_down returns: reset_all_configs goes on, main ends
DownReturn ==
    IF loc.fn = "reset_all_configs"
    THEN pc' = "reset_keys" /\ exitCode' = exitCode
    ELSE ExitWith(0)

\* a discovery that treats an empty interface list as an error
DownDiscoverEmptyFails ==
    /\ pc = "down_discover"
    /\ LET interfaces == SeqOf(get_existing_wg_interfaces) IN
       /\ loc' = [loc EXCEPT !.interfaces = interfaces]
       /\ IF interfaces = <<>> THEN ExitWith(1)
          ELSE pc' = "down_stop" /\ exitCode' = exitCode
    /\ UNCHANGED <<faults, downloads, wgdir, up, ovvars, db>>

DownDiscover ==
    /\ pc = "down_discover"
    /\ LET interfaces == SeqOf(get_existing_wg_interfaces) IN
       /\ loc' = [loc EXCEPT !.interfaces = interfaces]
       /\ IF interfaces = <<>> THEN DownReturn
          ELSE pc' = "down_stop" /\ exitCode' = exitCode
    /\ UNCHANGED <<faults, downloads, wgdir, up, ovvars, db>>

DownStop ==
    /\ pc = "down_stop"
    /\ stop_interface(Head(loc.interfaces))
    /\ loc' = [loc EXCEPT !.interfaces = Tail(@)]
    /\ IF Tail(loc.interfaces) = <<>> THEN DownReturn
       ELSE pc' = "down_stop" /\ exitCode' = exitCode
    /\ UNCHANGED <<downloads, wgdir, ovvars, db>>

UpDiscover ==
    /\ pc = "up_discover"
    /\ LET interfaces == SeqOf(get_existing_wg_interfaces) IN
       /\ loc' = [loc EXCEPT !.interfaces = interfaces]
       /\ IF interfaces = <<>> THEN ExitWith(0)
          ELSE pc' = "up_start" /\ exitCode' = exitCode
    /\ UNCHANGED <<faults, downloads, wgdir, up, ovvars, db>>

\* for iface in interfaces: start_interface(iface); its exception is not caught
UpStart ==
    /\ pc = "up_start"
    /\ \/ /\ up' = SystemctlStart(Head(loc.interfaces))
          /\ loc' = [loc EXCEPT !.interfaces = Tail(@)]
          /\ IF Tail(loc.interfaces) = <<>> THEN ExitWith(0)
             ELSE pc' = "up_start" /\ exitCode' = exitCode
          /\ faults' = faults
       \/ /\ CanFault
          /\ faults' = faults + 1
          /\ loc' = [loc EXCEPT !.failed = @ \cup {Head(loc.interfaces)},
                                !.interfaces = Tail(@), !.startFailed = TRUE]
          /\ ExitWith(1)
          /\ up' = up
    /\ UNCHANGED <<downloads, wgdir, ovvars, db>>

\* "Remove server keys to force regeneration"
ResetServerKeys ==
    /\ pc = "reset_keys"
    /\ wgdir' = Drop(wgdir, {SERVER_PRIV, SERVER_PUB})
    /\ pc' = "reset_confs"
    /\ UNCHANGED <<loc, exitCode, faults, downloads, up, ovvars, db>>

\* "Remove all wg*.conf files"
ResetConfs ==
    /\ pc = "reset_confs"
    /\ wgdir' = Drop(wgdir, {n \in DOMAIN wgdir : GlobWgConf(n)})
    /\ pc' = "reset_dirs"
    /\ UNCHANGED <<loc, exitCode, faults, downloads, up, ovvars, db>>

\* "Remove all team download directories"
ResetTeamDirs ==
    /\ pc = "reset_dirs"
    /\ downloads' = Drop(downloads, {d \in DOMAIN downloads : IsDigit(d)})
    /\ ExitWith(0)
    /\ UNCHANGED <<loc, faults, wgdir, up, ovvars, db>>

\* a fresh host: no file, no directory, nothing running
Init ==
    /\ pc = "idle"
    /\ loc = LocInit
    /\ exitCode = 0
    /\ faults = 0
    /\ downloads = EmptyFn
    /\ wgdir = EmptyFn
    /\ up = EmptyFn
    /\ dirs = {}
    /\ pki = PkiInit
    /\ serverdir = EmptyFn
    /\ units = EmptyFn
    /\ forward = 0
    /\ db = DbFresh

NextWG ==
    \/ WGMain \/ CallBringAllUp \/ Exit
    \/ ModeAllDb \/ ModeAllServerKeys \/ ModeAllWriteServerPriv
    \/ ModeAllWriteServerPub \/ ModeAllLoop \/ ModeSingle
    \/ GenServerKeys \/ GenWriteServerPriv \/ GenWriteServerPub
    \/ GenStop \/ GenMkdir \/ GenClientKeys
    \/ GenWriteClientPriv \/ GenWriteClientPub
    \/ GenWriteWgConf \/ GenWriteVpnConf \/ GenStart
    \/ DownDiscover \/ DownStop \/ UpDiscover \/ UpStart
    \/ ResetServerKeys \/ ResetConfs \/ ResetTeamDirs

SpecWG == Init /\ [][NextWG]_vars

\* ---- --single with a net_number that is no valid team number

\* not positive: the subnet <PREFIX>.0.0/24 and the port base_port + 0
InvalidNets == {0}

\* main() with --single --net-number <n>, n invalid, run as root: argparse
\* takes any int
WGMainInvalid ==
    /\ pc = "idle"
    /\ \E n \in InvalidNets :
         loc' = [LocInit EXCEPT !.flags = {"single"}, !.net_number = <<n>>,
                                !.fn = "mode_single", !.caller = "mode_single"]
    /\ pc' = Entry("mode_single")
    /\ UNCHANGED <<exitCode, faults, downloads, wgdir, up, ovvars, db>>

NextWGInvalid == NextWG \/ WGMainInvalid

SpecWGInvalid == Init /\ [][NextWGInvalid]_vars

\* ---- the operator interrupts a running invocation

\* SIGINT: KeyboardInterrupt is raised at the current step; no `except
\* Exception` or `except CalledProcessError` of the script catches it, so the
\* interpreter ends with the status of a process killed by the signal
Interrupt ==
    /\ pc \notin {"idle", "done"}
    /\ CanFault
    /\ faults' = faults + 1
    /\ ExitWith(130)
    /\ UNCHANGED <<loc, downloads, wgdir, up, ovvars, db>>

NextWGInterrupt == NextWG \/ Interrupt

SpecWGInterrupt == Init /\ [][NextWGInterrupt]_vars

\* ---- stop_interface(iface) called as a function, on any team's interface

CallStopInterface ==
    /\ pc = "idle"
    /\ \E n \in TeamNets :
         loc' = [LocInit EXCEPT !.fn = "stop_interface", !.caller = "stop_interface",
                                !.interfaces = <<IfaceName(n)>>,
                                !.wasUp = IfaceName(n) \in DOMAIN up]
    /\ pc' = "stop_call"
    /\ UNCHANGED <<exitCode, faults, downloads, wgdir, up, ovvars, db>>

\* a stop_interface that runs systemctl with check=True and lets the error of
\* stopping an interface that is not up reach its caller
StopCallChecked ==
    /\ pc = "stop_call"
    /\ IF Head(loc.interfaces) \in DOMAIN up
       THEN stop_interface(Head(loc.interfaces)) /\ ExitWith(0)
       ELSE UNCHANGED <<up, faults>> /\ ExitWith(1)
    /\ UNCHANGED <<loc, downloads, wgdir, ovvars, db>>

\* the body of stop_interface: systemctl stop, systemctl disable, both with
\* check=False; the function returns normally
StopCall ==
    /\ pc = "stop_call"
    /\ stop_interface(Head(loc.interfaces))
    /\ ExitWith(0)
    /\ UNCHANGED <<loc, downloads, wgdir, ovvars, db>>

NextWGStop == NextWG \/ CallStopInterface \/ StopCall

SpecWGStop == Init /\ [][NextWGStop]_vars


\* --------------------------------------------------------------- OpenVPN
OV_BASE_PORT == 1194
PLAYER_SUBNET == "10.33"
VULNBOX_SUBNET == "10.32"

\* f"team{net}"
TeamName(net) == <<"team">> \o Str(net)
\* server_cert = f"team{net}-server", client_cert = f"team{net}-shared"
ServerCertName(net) == TeamName(net) \o <<"-server">>
ClientCertName(net) == TeamName(net) \o <<"-shared">>
\* Path(SERVER_DIR) / f"team{net}.conf"
ServerConfName(net) == TeamName(net) \o <<".conf">>
\* service = f"openvpn-server@team{net}"
ServiceName(net) == <<"openvpn-server@">> \o TeamName(net)

\* glob("team*.conf")
GlobTeamConf(name) == Len(name) >= 2 /\ name[1] = "team" /\ name[Len(name)] = ".conf"

\* glob("*-player.ovpn")
GlobDashPlayerOvpn(name) ==
    /\ Len(name) >= 3
    /\ SubSeq(name, Len(name) - 2, Len(name)) = <<"-", "player", ".ovpn">>

\* conf.stem
Stem(name) == SubSeq(name, 1, Len(name) - 1)

\* the owner of the key numbers of the tls-auth key (the CA's are the
\* server's, owner 0)
TaOwner == MaxNet + 1

\* the rendered server config team<net>.conf
\* a rendering that pushes the blanket supernet route whatever the team list
ServerConfBlanket(net, port, all_teams) ==
    [ port |-> port,
      dev |-> <<"tun-team">> \o Str(net),
      cert |-> ServerCertName(net),
      server |-> <<PLAYER_SUBNET, net, 0>>,
      routes |-> << <<VULNBOX_SUBNET, 0, 0, 16>> >>,
      nat |-> <<PLAYER_SUBNET, net, 0, 24>> ]

ServerConf(net, port, all_teams) ==
    [ port |-> port,
      dev |-> <<"tun-team">> \o Str(net),
      cert |-> ServerCertName(net),
      server |-> <<PLAYER_SUBNET, net, 0>>,
      routes |-> IF all_teams # <<>>
                 THEN [i \in 1..Len(all_teams) |-> <<VULNBOX_SUBNET, all_teams[i], 0, 24>>]
                 ELSE << <<VULNBOX_SUBNET, 0, 0, 16>> >>,
      nat |-> <<PLAYER_SUBNET, net, 0, 24>> ]

\* the rendered client profile player.ovpn
PlayerOvpn(net, endpoint, port, ca_crt, client_crt, client_key, ta_key) ==
    [ net |-> net,
      remote |-> <<endpoint, port>>,
      ca |-> ca_crt,
      cert |-> client_crt,
      key |-> client_key,
      ta |-> ta_key ]

\* README.txt
Readme(net, endpoint, port) ==
    [ file |-> TeamName(net) \o <<"-", "player", ".ovpn">>,
      server |-> <<endpoint, port>>,
      vulnbox |-> <<VULNBOX_SUBNET, net, 2>> ]

\* main(): the function the selector flags route to
ov_dispatch(flags) ==
    IF "all" \in flags THEN "mode_all"
    ELSE IF "single" \in flags THEN "mode_single"
    ELSE IF "down" \in flags THEN "mode_down"
    ELSE IF "up" \in flags THEN "mode_up"
    ELSE IF "reset" \in flags THEN "mode_reset"
    ELSE None

OvEntry(fn) ==
    CASE fn = "mode_all" -> "ov_all_db"
      [] fn = "mode_single" -> "ov_single_check"
      [] fn = "mode_down" -> "ov_down_discover"
      [] fn = "mode_up" -> "ov_up_discover"
      [] fn = "mode_reset" -> "ov_down_discover"

\* a discovery that derives the services from the server configs on disk
\* instead of asking systemctl
ServicesFromConfigs ==
    {<<"openvpn-server@">> \o Stem(n) : n \in {m \in DOMAIN serverdir : GlobTeamConf(m)}}

\* get_existing_services(): the units systemctl lists whose line holds
\* "openvpn-server@team"
get_existing_services ==
    {u \in DOMAIN units : Len(u) >= 2 /\ u[1] = "openvpn-server@" /\ u[2] = "team"}

\* what an openvpn-server@ unit reads when it starts: its config and the
\* certificate files the config names
OvLoaded(conf) == [conf |-> conf, ca |-> pki.ca, key |-> pki.certs[conf.cert].key]

\* the unit can start: its config and every file the config names exist
OvCanStart(unit) ==
    /\ Tail(unit) \o <<".conf">> \in DOMAIN serverdir
    /\ serverdir[Tail(unit) \o <<".conf">>].cert \in DOMAIN pki.certs
    /\ pki.ca # 0 /\ pki.ta # 0

\* systemctl enable --now <unit>: a unit that is already active is left as
\* it runs
OvSystemctlStart(unit) ==
    IF unit \in DOMAIN units THEN units
    ELSE Put(units, unit, OvLoaded(serverdir[Tail(unit) \o <<".conf">>]))

\* main(): root check, argparse, `which openvpn`, dispatch
OVMain ==
    /\ pc = "idle"
    /\ \E isRoot \in BOOLEAN, hasOpenvpn \in BOOLEAN, inv \in Invocations :
         LET fn == ov_dispatch(inv[1])
             ok == isRoot /\ hasOpenvpn IN
         /\ loc' = [LocInit EXCEPT !.flags = inv[1], !.net_number = inv[2],
                                   !.fn = IF ok THEN fn ELSE None,
                                   !.caller = IF ok THEN fn ELSE None]
         /\ IF ~ok \/ fn = None THEN ExitWith(1)
            ELSE pc' = OvEntry(fn) /\ exitCode' = exitCode
    /\ UNCHANGED <<faults, downloads, wgvars, ovvars, db>>

\* ---- create_team_config(net, endpoint, all_teams)
BeginTeamOV(l, net, caller, all_teams) ==
    [l EXCEPT !.net = <<net>>, !.caller = caller, !.all_teams = all_teams,
              !.old_cpriv = IF ClientCertName(net) \in DOMAIN pki.certs
                            THEN pki.certs[ClientCertName(net)].key ELSE 0,
              !.old_conf = IF ServerConfName(net) \in DOMAIN serverdir
                           THEN {serverdir[ServerConfName(net)]} ELSE {},
              !.old_profile = IF Str(net) \in DOMAIN downloads
                                 /\ PLAYER_OVPN \in DOMAIN downloads[Str(net)]
                              THEN {downloads[Str(net)][PLAYER_OVPN]} ELSE {},
              !.wasUp = ServiceName(net) \in DOMAIN units,
              !.calls = <<>>, !.teamDone = FALSE, !.startFailed = FALSE]

\* an exception leaves create_team_config: mode_all logs it and goes on with
\* the next team; mode_single does not catch it
OvRaise(l) ==
    IF l.caller = "mode_all"
    THEN /\ loc' = [l EXCEPT !.failed = @ \cup {l.net[1]}, !.nets = Tail(@)]
         /\ pc' = "ov_all_loop"
         /\ exitCode' = exitCode
    ELSE /\ loc' = [l EXCEPT !.failed = @ \cup {l.net[1]}]
         /\ ExitWith(1)

\* create_team_config returns
OvReturn(l) ==
    /\ loc' = IF l.caller = "mode_all"
              THEN [l EXCEPT !.teamDone = TRUE, !.nets = Tail(@)]
              ELSE [l EXCEPT !.teamDone = TRUE]
    /\ pc' = IF l.caller = "mode_all" THEN "ov_all_loop" ELSE "ov_sysctl"
    /\ exitCode' = exitCode

\* an external command or file write of create_team_config fails
OvFault ==
    /\ CanFault
    /\ faults' = faults + 1
    /\ OvRaise(loc)

\* "Ensure directories exist"
OvDirs ==
    /\ pc = "c_dirs"
    /\ \/ /\ dirs' = dirs \cup {"SERVER_DIR", "DOWNLOADS_DIR"}
          /\ pc' = "p_check"
          /\ UNCHANGED <<loc, exitCode, faults>>
       \/ /\ OvFault
          /\ dirs' = dirs
    /\ UNCHANGED <<downloads, wgvars, pki, serverdir, units, forward, db>>

\* setup_pki(): return when pki/ca.crt exists; else remove PKI_DIR, create it,
\* copy easy-rsa (sys.exit(1) when /usr/share/easy-rsa is missing, which no
\* caller catches), write vars, easyrsa init-pki
SetupPki ==
    /\ pc = "p_check"
    /\ IF pki.ca # 0
       THEN /\ pc' = "c_srvcert"
            /\ UNCHANGED <<loc, exitCode, faults, dirs, pki>>
       ELSE \/ /\ pki' = PkiInit
               /\ dirs' = dirs \cup {"PKI_DIR"}
               /\ loc' = [loc EXCEPT !.umask = UMASK_077]
               /\ pc' = "p_ca"
               /\ UNCHANGED <<exitCode, faults>>
            \/ /\ CanFault
               /\ faults' = faults + 1
               /\ pki' = PkiInit
               /\ dirs' = dirs \cup {"PKI_DIR"}
               /\ ExitWith(1)
               /\ loc' = loc
            \/ /\ OvFault
               /\ UNCHANGED <<dirs, pki>>
    /\ UNCHANGED <<downloads, wgvars, serverdir, units, forward, db>>

\* easyrsa --batch build-ca nopass
PkiBuildCa ==
    /\ pc = "p_ca"
    /\ \/ /\ CanGenKey(0)
          /\ pki' = [pki EXCEPT !.ca = FreshKey(0)]
          /\ pc' = "p_dh"
          /\ UNCHANGED <<loc, exitCode, faults>>
       \/ /\ OvFault
          /\ pki' = pki
    /\ UNCHANGED <<downloads, wgvars, dirs, serverdir, units, forward, db>>

\* easyrsa gen-dh
PkiGenDh ==
    /\ pc = "p_dh"
    /\ \/ /\ pc' = "p_ta"
          /\ UNCHANGED <<loc, exitCode, faults>>
       \/ OvFault
    /\ UNCHANGED <<downloads, wgvars, ovvars, db>>

\* openvpn --genkey secret pki/ta.key
PkiGenTa ==
    /\ pc = "p_ta"
    /\ \/ /\ CanGenKey(TaOwner)
          /\ pki' = [pki EXCEPT !.ta = FreshKey(TaOwner)]
          /\ pc' = "c_srvcert"
          /\ UNCHANGED <<loc, exitCode, faults>>
       \/ /\ OvFault
          /\ pki' = pki
    /\ UNCHANGED <<downloads, wgvars, dirs, serverdir, units, forward, db>>

\* easyrsa build-server-full / build-client-full <name> nopass, check=False:
\* issues the key and certificate when the name has none yet; refuses (and is
\* not noticed) when it has, and any other failure is not noticed either
EasyRsaBuild(name, next) ==
    /\ IF name \in DOMAIN pki.certs
       THEN UNCHANGED <<pki, faults>>
       ELSE \/ /\ CanGenKey(loc.net[1])
               /\ pki' = [pki EXCEPT !.certs =
                            Put(@, name, [key |-> FreshKey(loc.net[1]), ca |-> pki.ca])]
               /\ faults' = faults
            \/ /\ CanFault
               /\ faults' = faults + 1
               /\ pki' = pki
    /\ pc' = next
    /\ UNCHANGED <<loc, exitCode, db>>

OvServerCert ==
    /\ pc = "c_srvcert"
    /\ EasyRsaBuild(ServerCertName(loc.net[1]), "c_clicert")
    /\ UNCHANGED <<downloads, wgvars, dirs, serverdir, units, forward, db>>

OvClientCert ==
    /\ pc = "c_clicert"
    /\ EasyRsaBuild(ClientCertName(loc.net[1]), "c_wserver")
    /\ UNCHANGED <<downloads, wgvars, dirs, serverdir, units, forward, db>>

\* server_conf.write_text(server_config)
OvWriteServerConf ==
    /\ pc = "c_wserver"
    /\ LET net == loc.net[1] IN
       \/ /\ serverdir' = Put(serverdir, ServerConfName(net),
                              ServerConf(net, OV_BASE_PORT + net, loc.all_teams))
          /\ loc' = [loc EXCEPT !.calls = Append(@, "write")]
          /\ pc' = "c_mkteam"
          /\ UNCHANGED <<exitCode, faults>>
       \/ /\ OvFault
          /\ serverdir' = serverdir
    /\ UNCHANGED <<downloads, wgvars, dirs, pki, units, forward, db>>

\* team_dir.mkdir(exist_ok=True)
OvMkTeamDir ==
    /\ pc = "c_mkteam"
    /\ LET d == Str(loc.net[1]) IN
       \/ /\ downloads' = IF d \in DOMAIN downloads THEN downloads
                          ELSE Put(downloads, d, EmptyFn)
          /\ pc' = "c_wclient"
          /\ UNCHANGED <<loc, exitCode, faults>>
       \/ /\ OvFault
          /\ downloads' = downloads
    /\ UNCHANGED <<wgvars, ovvars, db>>

\* "Read certificates" (a missing file raises), client_conf.write_text
OvWriteClient ==
    /\ pc = "c_wclient"
    /\ LET net == loc.net[1]
           cc == ClientCertName(net) IN
       IF cc \notin DOMAIN pki.certs \/ pki.ta = 0 \/ pki.ca = 0
       THEN /\ OvRaise(loc)
            /\ UNCHANGED <<faults, downloads>>
       ELSE \/ /\ downloads' = [downloads EXCEPT ![Str(net)] =
                     Put(@, PLAYER_OVPN,
                         PlayerOvpn(net, ENDPOINT, OV_BASE_PORT + net, pki.ca,
                                    pki.certs[cc], pki.certs[cc].key, pki.ta))]
               /\ pc' = "c_wreadme"
               /\ UNCHANGED <<loc, exitCode, faults>>
            \/ /\ OvFault
               /\ downloads' = downloads
    /\ UNCHANGED <<wgvars, ovvars, db>>

\* readme.write_text(...)
OvWriteReadme ==
    /\ pc = "c_wreadme"
    /\ LET net == loc.net[1] IN
       \/ /\ downloads' = [downloads EXCEPT ![Str(net)] =
                Put(@, README_TXT, Readme(net, ENDPOINT, OV_BASE_PORT + net))]
          /\ pc' = "c_start"
          /\ UNCHANGED <<loc, exitCode, faults>>
       \/ /\ OvFault
          /\ downloads' = downloads
    /\ UNCHANGED <<wgvars, ovvars, db>>

\* "Start service": try: systemctl enable --now; except: logging.error; then
\* the function returns
OvStart ==
    /\ pc = "c_start"
    /\ LET unit == ServiceName(loc.net[1])
           l == [loc EXCEPT !.calls = Append(@, "start")] IN
       \/ /\ OvCanStart(unit)
          /\ units' = OvSystemctlStart(unit)
          /\ OvReturn(l)
          /\ faults' = faults
       \/ /\ ~OvCanStart(unit)
          /\ units' = units
          /\ OvReturn([l EXCEPT !.startFailed = TRUE])
          /\ faults' = faults
       \/ /\ CanFault
          /\ faults' = faults + 1
          /\ units' = units
          /\ OvReturn([l EXCEPT !.startFailed = TRUE])
    /\ UNCHANGED <<downloads, wgvars, dirs, pki, serverdir, forward, db>>

\* ---- mode_all(args), mode_single(args)

\* get_teams_from_db(); "No teams found"
OvModeAllDb ==
    /\ pc = "ov_all_db"
    /\ \/ /\ ExitWith(1)                 \* settings missing or database error
          /\ loc' = loc
       \/ \E S \in SUBSET TeamNets :
            IF S = {}
            THEN ExitWith(1) /\ loc' = loc
            ELSE /\ loc' = [loc EXCEPT !.nets = SortedSeq(S), !.all_teams = SortedSeq(S)]
                 /\ pc' = "ov_all_loop"
                 /\ exitCode' = exitCode
    /\ UNCHANGED <<faults, downloads, wgvars, ovvars, db>>

\* for team in teams: try: create_team_config(team, args.endpoint, teams)
OvModeAllLoop ==
    /\ pc = "ov_all_loop"
    /\ IF loc.nets = <<>>
       THEN pc' = "ov_sysctl" /\ loc' = loc
       ELSE /\ loc' = BeginTeamOV(loc, Head(loc.nets), "mode_all", loc.all_teams)
            /\ pc' = "c_dirs"
    /\ UNCHANGED <<exitCode, faults, downloads, wgvars, ovvars, db>>

\* a mode_single that hands the team itself over as the team list
OvModeSinglePassesTeam ==
    /\ pc = "ov_single_check"
    /\ IF loc.net_number = <<>> \/ loc.net_number = <<0>>
       THEN ExitWith(1) /\ loc' = loc
       ELSE /\ loc' = BeginTeamOV(loc, loc.net_number[1], "mode_single", loc.net_number)
            /\ pc' = "c_dirs"
            /\ exitCode' = exitCode
    /\ UNCHANGED <<faults, downloads, wgvars, ovvars, db>>

OvModeSingle ==
    /\ pc = "ov_single_check"
    /\ IF loc.net_number = <<>> \/ loc.net_number = <<0>>
       THEN ExitWith(1) /\ loc' = loc
       ELSE /\ loc' = BeginTeamOV(loc, loc.net_number[1], "mode_single", <<>>)
            /\ pc' = "c_dirs"
            /\ exitCode' = exitCode
    /\ UNCHANGED <<faults, downloads, wgvars, ovvars, db>>

\* iptables -A FORWARD: the rule goes to the end of the chain whether or not
\* an equal rule is in it; MaxForward copies or more are counted as MaxForward
IptablesAppend(n) == IF n < MaxForward THEN n + 1 ELSE n

\* sysctl -w net.ipv4.ip_forward=1 (its failure is not caught), the two
\* iptables -A FORWARD bridge rules (check=False), return to main, chown
OvSysctl ==
    /\ pc = "ov_sysctl"
    /\ \/ /\ ExitWith(0)
          /\ faults' = faults
          /\ forward' = IptablesAppend(forward)
       \/ /\ CanFault
          /\ faults' = faults + 1
          /\ ExitWith(1)
          /\ forward' = forward
    /\ UNCHANGED <<loc, downloads, wgvars, dirs, pki, serverdir, units, db>>

\* ---- mode_down(args), mode_up(args), mode_reset(args)

\* mode_down returns: mode_reset goes on, main ends
OvDownReturn ==
    IF loc.fn = "mode_reset"
    THEN pc' = "ov_reset_confs" /\ exitCode' = exitCode
    ELSE ExitWith(0)

OvDownDiscover ==
    /\ pc = "ov_down_discover"
    /\ LET services == SeqOf(get_existing_services) IN
       /\ loc' = [loc EXCEPT !.interfaces = services]
       /\ IF services = <<>> THEN OvDownReturn
          ELSE pc' = "ov_down_stop" /\ exitCode' = exitCode
    /\ UNCHANGED <<faults, downloads, wgvars, ovvars, db>>

\* try: systemctl stop; systemctl disable; except: logging.warning
OvDownStop ==
    /\ pc = "ov_down_stop"
    /\ LET service == Head(loc.interfaces) IN
       \/ /\ units' = Drop(units, {service})
          /\ loc' = [loc EXCEPT !.interfaces = Tail(@)]
          /\ faults' = faults
       \/ /\ CanFault
          /\ faults' = faults + 1
          /\ units' = units
          /\ loc' = [loc EXCEPT !.interfaces = Tail(@), !.failed = @ \cup {service}]
    /\ IF Tail(loc.interfaces) = <<>> THEN OvDownReturn
       ELSE pc' = "ov_down_stop" /\ exitCode' = exitCode
    /\ UNCHANGED <<downloads, wgvars, dirs, pki, serverdir, forward, db>>

\* "Find configs and start services"
OvUpDiscover ==
    /\ pc = "ov_up_discover"
    /\ IF "SERVER_DIR" \notin dirs
       THEN ExitWith(0) /\ loc' = loc
       ELSE LET confs == SeqOf({n \in DOMAIN serverdir : GlobTeamConf(n)}) IN
            /\ loc' = [loc EXCEPT !.interfaces = confs]
            /\ pc' = IF confs = <<>> THEN "ov_sysctl" ELSE "ov_up_start"
            /\ exitCode' = exitCode
    /\ UNCHANGED <<faults, downloads, wgvars, ovvars, db>>

\* try: systemctl enable --now; except: logging.error
OvUpStart ==
    /\ pc = "ov_up_start"
    /\ LET service == <<"openvpn-server@">> \o Stem(Head(loc.interfaces))
           bad == [loc EXCEPT !.interfaces = Tail(@), !.failed = @ \cup {service},
                              !.startFailed = TRUE] IN
       \/ /\ OvCanStart(service)
          /\ units' = OvSystemctlStart(service)
          /\ loc' = [loc EXCEPT !.interfaces = Tail(@)]
          /\ faults' = faults
       \/ /\ ~OvCanStart(service)
          /\ units' = units
          /\ loc' = bad
          /\ faults' = faults
       \/ /\ CanFault
          /\ faults' = faults + 1
          /\ units' = units
          /\ loc' = bad
    /\ pc' = IF Tail(loc.interfaces) = <<>> THEN "ov_sysctl" ELSE "ov_up_start"
    /\ UNCHANGED <<exitCode, downloads, wgvars, dirs, pki, serverdir, forward, db>>

\* "Remove configs"
OvResetConfs ==
    /\ pc = "ov_reset_confs"
    /\ serverdir' = Drop(serverdir, {n \in DOMAIN serverdir : GlobTeamConf(n)})
    /\ pc' = "ov_reset_pki"
    /\ UNCHANGED <<loc, exitCode, faults, downloads, wgvars, dirs, pki, units, forward, db>>

\* "Remove PKI"
OvResetPki ==
    /\ pc = "ov_reset_pki"
    /\ pki' = PkiInit
    /\ dirs' = dirs \ {"PKI_DIR"}
    /\ pc' = "ov_reset_clients"
    /\ UNCHANGED <<loc, exitCode, faults, downloads, wgvars, serverdir, units, forward, db>>

\* "Remove client configs": iterdir() of a missing DOWNLOADS_DIR raises
OvResetClients ==
    /\ pc = "ov_reset_clients"
    /\ IF "DOWNLOADS_DIR" \notin dirs
       THEN ExitWith(1) /\ downloads' = downloads
       ELSE /\ downloads' =
                 [d \in DOMAIN downloads |->
                    IF IsDigit(d)
                    THEN Drop(downloads[d],
                              {n \in DOMAIN downloads[d] :
                                 GlobDashPlayerOvpn(n) \/ n = README_TXT})
                    ELSE downloads[d]]
            /\ ExitWith(0)
    /\ UNCHANGED <<loc, faults, wgvars, ovvars, db>>

NextOV ==
    \/ OVMain \/ Exit
    \/ OvModeAllDb \/ OvModeAllLoop \/ OvModeSingle \/ OvSysctl
    \/ OvDirs \/ SetupPki \/ PkiBuildCa \/ PkiGenDh \/ PkiGenTa
    \/ OvServerCert \/ OvClientCert \/ OvWriteServerConf \/ OvMkTeamDir
    \/ OvWriteClient \/ OvWriteReadme \/ OvStart
    \/ OvDownDiscover \/ OvDownStop \/ OvUpDiscover \/ OvUpStart
    \/ OvResetConfs \/ OvResetPki \/ OvResetClients

SpecOV == Init /\ [][NextOV]_vars

\* ---- --base-port given on the command line
\* values of --base-port other than the default: argparse takes any int
BasePorts == {BASE_PORT + 1}

\* main() with --single --net-number <n> --base-port <p>, run as root
WGMainBasePort ==
    /\ pc = "idle"
    /\ \E n \in TeamNets, p \in BasePorts :
         loc' = [LocInit EXCEPT !.flags = {"single"}, !.net_number = <<n>>,
                                !.base_port = p,
                                !.fn = "mode_single", !.caller = "mode_single"]
    /\ pc' = Entry("mode_single")
    /\ UNCHANGED <<exitCode, faults, downloads, wgdir, up, ovvars, db>>

NextWGBasePort == NextWG \/ WGMainBasePort

SpecWGBasePort == Init /\ [][NextWGBasePort]_vars

\* ---- two provisioning runs at the same time
\* Two processes run `--single --net-number n` and `--single --net-number m`
\* as root at the same time. Nothing in the script serialises them (no lock
\* file, no flock): the scheduler may switch between them after every step.
\* pc, loc and exitCode belong to the run on the CPU, loc.other holds the
\* other one.
RaceStart ==
    /\ pc = "idle"
    /\ \E n, m \in TeamNets :
         /\ n # m
         /\ loc' = [LocInit EXCEPT
                      !.flags = {"single"}, !.net_number = <<n>>,
                      !.fn = "mode_single", !.caller = "mode_single",
                      !.other = << [pc |-> Entry("mode_single"),
                                    exitCode |-> 0,
                                    loc |-> [LocInit EXCEPT
                                               !.flags = {"single"},
                                               !.net_number = <<m>>,
                                               !.fn = "mode_single",
                                               !.caller = "mode_single"]] >>]
    /\ pc' = Entry("mode_single")
    /\ UNCHANGED <<exitCode, faults, downloads, wgdir, up, ovvars, db>>

\* the scheduler takes the running process off the CPU and resumes the other
Yield ==
    /\ loc.other # <<>>
    /\ loc.other[1].pc # "done"
    /\ pc' = loc.other[1].pc
    /\ exitCode' = loc.other[1].exitCode
    /\ loc' = [loc.other[1].loc EXCEPT
                 !.other = << [pc |-> pc, exitCode |-> exitCode,
                               loc |-> [loc EXCEPT !.other = <<>>]] >>]
    /\ UNCHANGED <<faults, downloads, wgdir, up, ovvars, db>>

NextWGRace ==
    \/ RaceStart \/ Yield \/ ModeSingle
    \/ GenServerKeys \/ GenWriteServerPriv \/ GenWriteServerPub
    \/ GenStop \/ GenMkdir \/ GenClientKeys
    \/ GenWriteClientPriv \/ GenWriteClientPub
    \/ GenWriteWgConf \/ GenWriteVpnConf \/ GenStart

SpecWGRace == Init /\ [][NextWGRace]_vars

\* ---- an external command that never returns
\* positions at which the next thing the invocation does is run(...): wg show
\* interfaces, wg genkey, systemctl stop / enable / start
CommandPcs == {"g_stop", "g_ckeys", "g_start", "down_discover", "down_stop", "up_start"}

\* run(): subprocess.run(cmd, ...) is called without timeout=, so it waits for
\* the child for as long as the child lives; when the child never exits the
\* invocation stays inside run()
Hang ==
    /\ pc \in CommandPcs
    /\ pc' = "in_run"
    /\ UNCHANGED <<loc, exitCode, faults, downloads, wgdir, up, ovvars, db>>

NextWGHang == NextWG \/ Hang

\* the process is scheduled for as long as it can take a step
SpecWGHang == Init /\ [][NextWGHang]_vars /\ WF_vars(NextWGHang)

\* ------------------------------------------------------------ reset tool
\* src/gamectrl/reset.py and src/reset.py: basic_reset is the same in both

\* a basic_reset that also clears the sessions
BasicStatementsAndSessions ==
    << <<"DELETE", "scoring_capture">>, <<"DELETE", "scoring_scoreboard">>,
       <<"DELETE", "scoring_statuscheck">>, <<"DELETE", "scoring_checkerstate">>,
       <<"DELETE", "scoring_flag">>, <<"DELETE", "vpnstatus_vpnstatuscheck">>,
       <<"DELETE", "django_session">>, <<"UPDATE", "current_tick">> >>

\* the statements of basic_reset, in the order of the code
BasicStatements ==
    << <<"DELETE", "scoring_capture">>, <<"DELETE", "scoring_scoreboard">>,
       <<"DELETE", "scoring_statuscheck">>, <<"DELETE", "scoring_checkerstate">>,
       <<"DELETE", "scoring_flag">>, <<"DELETE", "vpnstatus_vpnstatuscheck">>,
       <<"UPDATE", "current_tick">> >>

\* the row of the admin user that full_reset inserts: is_superuser = true
AdminRow(admin) == <<admin.username, "superuser">>

\* DEFAULT_TEAMDOWNLOADS, DEFAULT_FLATPAGE_CATEGORIES, DEFAULT_FLATPAGES (slugs)
DEFAULT_TEAMDOWNLOADS == << <<"wg-ctf.conf">>, <<"player.ovpn">> >>
DEFAULT_FLATPAGE_CATEGORIES == << <<"information">> >>
DEFAULT_FLATPAGES ==
    << <<"attack-defense-for-beginners">>, <<"submission">>,
       <<"vulnbox-setup">>, <<"index">> >>

\* the markdown files found on disk: all of them or none
PagesOnDisk == {<<>>, DEFAULT_FLATPAGES}

\* the statements of full_reset, in the order of the code
FullStatements(config, admin, pages) ==
    << <<"DELETE", "scoring_capture">>, <<"DELETE", "scoring_scoreboard">>,
       <<"DELETE", "scoring_statuscheck">>, <<"DELETE", "scoring_checkerstate">>,
       <<"DELETE", "scoring_flag">>, <<"DELETE", "vpnstatus_vpnstatuscheck">>,
       <<"DELETE", "registration_teamdownload">>,
       <<"DELETE", "flatpages_flatpage">>, <<"DELETE", "flatpages_category">>,
       <<"DELETE", "django_admin_log">>, <<"DELETE", "django_session">>,
       <<"DELETE", "scoring_service">>,
       <<"DELETE", "auth_user_groups">>,
       <<"DELETE", "auth_user_user_permissions">>,
       <<"DELETE", "registration_team">>, <<"DELETE", "auth_user">>,
       <<"INSERT", "auth_user", AdminRow(admin)>>,
       <<"UPDATE", "scoring_gamecontrol", config>> >>
    \o [i \in 1..Len(DEFAULT_TEAMDOWNLOADS) |->
          <<"INSERT", "registration_teamdownload", DEFAULT_TEAMDOWNLOADS[i]>>]
    \o [i \in 1..Len(DEFAULT_FLATPAGE_CATEGORIES) |->
          <<"INSERT", "flatpages_category", DEFAULT_FLATPAGE_CATEGORIES[i]>>]
    \o [i \in 1..Len(pages) |-> <<"INSERT", "flatpages_flatpage", pages[i]>>]

\* cursor.execute: DELETE FROM <table>; INSERT INTO <table>; UPDATE
\* scoring_gamecontrol SET current_tick = 0 (basic_reset) or SET every column
\* to its configured default (full_reset). The UPDATE has no WHERE clause: it
\* changes the rows the table has and inserts none
Execute(d, stmt) ==
    IF stmt[1] = "DELETE" THEN [d EXCEPT !.rows[stmt[2]] = {}]
    ELSE IF stmt[1] = "INSERT" THEN [d EXCEPT !.rows[stmt[2]] = @ \cup {stmt[3]}]
    ELSE IF stmt[2] = "current_tick"
         THEN [d EXCEPT !.gamecontrol = {[g EXCEPT !.current_tick = 0] : g \in @}]
         ELSE [d EXCEPT !.gamecontrol = {stmt[3] : g \in @}]

\* a row that was in a table before the reset
SeedRows == {<<"row">> \o Str(i) : i \in 1..MaxRows}

\* the game is played on the fresh installation before the tool is used: any
\* database state (the game-data tables hold the same rows, and so do the
\* tables only full_reset clears and the tables of teams, services and
\* sessions; scoring_gamecontrol holds its one row or, before the web
\* application has created it, none: show_current_state tests for it)
GameActivity ==
    /\ pc = "idle"
    /\ db = DbFresh
    /\ \E users \in SUBSET SeedRows, k \in SUBSET SeedRows,
          d \in SUBSET SeedRows, a \in SUBSET SeedRows,
          g \in {{}} \cup {{[current_tick |-> t, registration_open |-> o]} :
                              t \in 0..MaxTick, o \in BOOLEAN} :
         db' = [rows |-> [x \in Tables |-> IF x \in AuxTables THEN a
                                           ELSE IF x \in GameDataTables THEN d
                                           ELSE IF x = "auth_user" THEN users
                                           ELSE k],
                gamecontrol |-> g]
    /\ UNCHANGED <<pc, loc, exitCode, faults, downloads, wgvars, ovvars>>

\* answers typed at the confirmation prompt
Answers == {"yes", "YES", "no"}

\* a comparison of the answer that takes anything for yes
LowerAnyYes(a) == "yes"

\* str.lower()
Lower(a) == IF a = "YES" THEN "yes" ELSE IF a = "True" THEN "true" ELSE a

\* the keys of DEFAULT_CONFIG and of ADMIN_CONFIG
ConfigKeys ==
    {"competition_name", "services_public", "start", "end", "tick_duration",
     "valid_ticks", "current_tick", "cancel_checks", "flag_prefix",
     "registration_open", "registration_confirm_text", "min_net_number",
     "max_net_number"}
AdminKeys == {"username", "email", "password"}
IntKeys ==
    {"tick_duration", "valid_ticks", "current_tick", "min_net_number",
     "max_net_number"}
BoolKeys == {"cancel_checks", "registration_open"}

\* int(value): <<n>>, or <<>> for ValueError
IntOf(value) ==
    CASE value = "0" -> <<0>>
      [] value = "1" -> <<1>>
      [] OTHER -> <<>>

\* update_defaults(key, value) on u = [ok, config, admin]: ok is the value
\* returned (the value "None" is not among the inputs)
update_defaults(u, key, value) ==
    IF key \in ConfigKeys
    THEN IF key \in IntKeys
         THEN IF IntOf(value) = <<>> THEN [u EXCEPT !.ok = FALSE]
              ELSE IF key = "current_tick"
                   THEN [u EXCEPT !.config.current_tick = IntOf(value)[1]]
                   ELSE u
         ELSE IF key \in BoolKeys
              THEN IF key = "registration_open"
                   THEN [u EXCEPT !.config.registration_open =
                                     Lower(value) \in {"true", "1", "yes", "on"}]
                   ELSE u
              ELSE u
    ELSE IF key \in AdminKeys
         THEN IF key = "username" THEN [u EXCEPT !.admin.username = value] ELSE u
         ELSE [u EXCEPT !.ok = FALSE]

\* for key, value in args.set: if not update_defaults(key, value): sys.exit(1)
RECURSIVE ApplySets(_, _)
ApplySets(set, u) ==
    IF set = <<>> \/ ~u.ok THEN u
    ELSE ApplySets(Tail(set), update_defaults(u, Head(set)[1], Head(set)[2]))

\* the --set options of the command lines enumerated
SetArgs ==
    { <<>>,
      << <<"current_tick", "1">> >>,
      << <<"registration_open", "off">>, <<"username", "root">> >>,
      << <<"tick_duration", "abc">> >>,
      << <<"bogus", "1">> >>,
      << <<"current_tick", "1">>, <<"bogus", "1">> >> }

\* main(): the --set options, the confirmation prompt, then
\* connect_to_database() (autocommit = True) and the call of basic_reset or
\* full_reset
ResetMain ==
    /\ pc = "idle"
    /\ \E reset_type \in {"basic", "full"}, set \in SetArgs,
          confirm \in Answers, pages \in PagesOnDisk :
         LET u == ApplySets(set, [ok |-> TRUE, config |-> DEFAULT_CONFIG,
                                  admin |-> ADMIN_CONFIG])
             l == [LocInit EXCEPT !.flags = {reset_type}, !.set = set]
             c == [l EXCEPT !.confirm = confirm]
         IN
         IF ~u.ok
         THEN loc' = l /\ ExitWith(1) /\ faults' = faults
         ELSE IF Lower(confirm) # "yes"
         THEN loc' = c /\ ExitWith(0) /\ faults' = faults
         ELSE \/ /\ loc' = [c EXCEPT
                              !.config = u.config, !.admin = u.admin,
                              !.before = db,
                              !.fn = IF reset_type = "basic" THEN "basic_reset"
                                     ELSE "full_reset",
                              !.caller = "main",
                              !.stmts = IF reset_type = "basic"
                                        THEN BasicStatements
                                        ELSE FullStatements(u.config, u.admin, pages)]
                 /\ pc' = "r_stmt"
                 /\ UNCHANGED <<exitCode, faults>>
              \/ /\ CanFault                  \* psycopg2.Error in connect
                 /\ faults' = faults + 1
                 /\ loc' = c
                 /\ ExitWith(1)
    /\ UNCHANGED <<downloads, wgvars, ovvars, db>>

\* one cursor.execute of the reset. On psycopg2.Error: the INSERT of a
\* flatpage is inside a try / except Exception of its own, the loop goes on;
\* any other statement: conn.rollback(), which undoes nothing because the
\* connection is in autocommit mode, and sys.exit(1)
ExecStatement ==
    /\ pc = "r_stmt"
    /\ LET stmt == Head(loc.stmts)
           next == IF Tail(loc.stmts) = <<>> THEN "r_show" ELSE "r_stmt" IN
       \/ /\ db' = Execute(db, stmt)
          /\ loc' = [loc EXCEPT !.stmts = Tail(@)]
          /\ pc' = next
          /\ UNCHANGED <<exitCode, faults>>
       \/ /\ CanFault
          /\ faults' = faults + 1
          /\ db' = db
          /\ IF stmt[1] = "INSERT" /\ stmt[2] = "flatpages_flatpage"
             THEN /\ loc' = [loc EXCEPT !.stmts = Tail(@)]
                  /\ pc' = next
                  /\ exitCode' = exitCode
             ELSE ExitWith(1) /\ loc' = loc
    /\ UNCHANGED <<downloads, wgvars, ovvars>>

\* show_current_state(cursor): SELECTs only, inside the same try block
ShowCurrentState ==
    /\ pc = "r_show"
    /\ \/ /\ ExitWith(0)
          /\ faults' = faults
       \/ /\ CanFault
          /\ faults' = faults + 1
          /\ ExitWith(1)
    /\ UNCHANGED <<loc, downloads, wgvars, ovvars, db>>

NextReset == GameActivity \/ ResetMain \/ ExecStatement \/ ShowCurrentState \/ Exit

SpecReset == Init /\ [][NextReset]_vars

\* ---- stop-all, then start-all
\* The operator runs `vpnconfig.py --down && vpnconfig.py --up` as root, or
\* stops with --down and then calls bring_all_up(): loc.ran keeps the
\* interfaces that were up when the sequence began, loc.then the function of
\* the second command.
SequenceStart ==
    /\ pc = "idle"
    /\ \E second \in {main_dispatch({"up"}), "bring_all_up"} :
         loc' = [LocInit EXCEPT !.flags = {"down"},
                                !.fn = main_dispatch({"down"}),
                                !.caller = main_dispatch({"down"}),
                                !.ran = get_existing_wg_interfaces,
                                !.then = <<second>>]
    /\ pc' = Entry(main_dispatch({"down"}))
    /\ UNCHANGED <<exitCode, faults, downloads, wgdir, up, ovvars, db>>

\* `&&`: the first command has ended with exit code 0, the second one starts
SequenceNext ==
    /\ pc = "done"
    /\ exitCode = 0
    /\ loc.then # <<>>
    /\ loc' = [LocInit EXCEPT !.flags = {"up"},
                              !.fn = Head(loc.then),
                              !.caller = Head(loc.then),
                              !.ran = loc.ran,
                              !.then = Tail(loc.then)]
    /\ pc' = Entry(Head(loc.then))
    /\ UNCHANGED <<exitCode, faults, downloads, wgdir, up, ovvars, db>>

NextWGRoundTrip == NextWG \/ SequenceStart \/ SequenceNext

SpecWGRoundTrip == Init /\ [][NextWGRoundTrip]_vars

\* ---- a WireGuard interface that is not of the fleet
\* `wg show interfaces` reports every WireGuard interface of the host. The
\* operator keeps one of their own, wgadmin, with its definition wgadmin.conf
\* in the WireGuard directory, where wg-quick looks for it.
FOREIGN_IFACE == <<"wg", "admin">>

\* wg-quick up wgadmin, done by the operator
ForeignUp ==
    /\ pc = "idle"
    /\ FOREIGN_IFACE \notin DOMAIN up
    /\ LET conf == [WgConf(0, BASE_PORT, 0, 0) EXCEPT !.Iface = FOREIGN_IFACE] IN
       /\ wgdir' = Put(wgdir, WgConfName(FOREIGN_IFACE), conf)
       /\ up' = Put(up, FOREIGN_IFACE, conf)
    /\ UNCHANGED <<pc, loc, exitCode, faults, downloads, ovvars, db>>

NextWGForeign == NextWG \/ ForeignUp

SpecWGForeign == Init /\ [][NextWGForeign]_vars

\* ================================================================ claims

\* the files of team directory d and the definition of its interface, when
\* they exist
HasProfile(d) == d \in DOMAIN downloads /\ VPN_CONF \in DOMAIN downloads[d]
HasDefinition(d) == WgConfName(<<"wg">> \o d) \in DOMAIN wgdir

\* C2 (as claimed): a provisioning step that found a client private key on disk,
\* written by an earlier provisioning with no reset since (no command ever
\* failed), returns with that same private key on disk.
C2_ClientKeyKept ==
    (faults = 0 /\ loc.fn \in {"mode_all", "mode_single"}
       /\ loc.teamDone /\ loc.old_cpriv # 0)
    => downloads[TeamDir(loc.net[1])][PRIVATE_KEY] = loc.old_cpriv

C4_ConfigureIdempotent ==
    (faults = 0 /\ loc.fn \in {"mode_all", "mode_single"} /\ loc.teamDone
       /\ loc.old_conf # {} /\ loc.old_profile # {})
    => /\ {wgdir[WgConfName(IfaceName(loc.net[1]))]} = loc.old_conf
       /\ {downloads[TeamDir(loc.net[1])][VPN_CONF]} = loc.old_profile

\* C5 (as claimed): between invocations, whenever a team has both its
\* definition and its profile on disk, the peer key of the definition is the
\* public key of the profile's private key and the profile's server key is the
\* public key of the definition's private key.
C5_ConsistentSnapshot ==
    pc = "idle" =>
      \A d \in DOMAIN downloads :
        (HasProfile(d) /\ HasDefinition(d)) =>
          LET conf == wgdir[WgConfName(<<"wg">> \o d)]
              prof == downloads[d][VPN_CONF] IN
          /\ conf.PeerPublicKey = WgPubkey(prof.PrivateKey)
          /\ prof.PublicKey = WgPubkey(conf.PrivateKey)

\* C6 (as claimed): a fleet operation in which a team failed has still
\* processed every team of its set when it ends.
C6_FleetContinues ==
    (pc = "done" /\ loc.fn \in {"mode_all", "bring_all_down", "bring_all_up"}
       /\ loc.failed # {})
    => (loc.nets = <<>> /\ loc.interfaces = <<>>)

\* C7 (as claimed): an invocation in which a team failed does not exit 0.
C7_ExitCodeReportsFailure ==
    (pc = "done" /\ exitCode = 0) => loc.failed = {}

\* C1 (as claimed): a provisioning step that found the team's service running
\* and returned has stopped it, then rewritten the definition, then started it.
C1_StopRewriteStart ==
    (loc.fn \in {"mode_all", "mode_single"} /\ loc.teamDone /\ loc.wasUp)
    => loc.calls = <<"stop", "write", "start">>

\* C8 (as claimed): a provisioning step whose start of the service failed does
\* not return to its caller as a step that succeeded.
C8_StartFailureReported ==
    (loc.fn \in {"mode_all", "mode_single"} /\ loc.startFailed) => ~loc.teamDone

\* the key material a team directory holds
DirKeys(d) == UNION {TeamFileKeys(n, downloads[d][n]) : n \in DOMAIN downloads[d]}

\* C9 (as claimed): when a reset in which no command failed has ended with exit
\* code 0, no service is active and neither the PKI nor any team directory
\* holds key material.
C9_ResetLeavesNoKeys ==
    (pc = "done" /\ loc.fn = "mode_reset" /\ exitCode = 0 /\ faults = 0)
    => /\ get_existing_services = {}
       /\ pki = PkiInit
       /\ \A d \in DOMAIN downloads : DirKeys(d) = {}

\* C10 (as claimed): when a reset in which no command failed has ended with exit
\* code 0, no server config, client profile or delivery note is left on disk.
C10_ResetDeletesEveryFile ==
    (pc = "done" /\ loc.fn = "mode_reset" /\ exitCode = 0 /\ faults = 0)
    => /\ \A n \in DOMAIN serverdir : ~GlobTeamConf(n)
       /\ \A d \in DOMAIN downloads :
            PLAYER_OVPN \notin DOMAIN downloads[d]
            /\ README_TXT \notin DOMAIN downloads[d]

\* C11 (as claimed): no step removes the server private key file while an
\* interface that was brought up with that key is still up.
C11_NoKeyRemovedUnderRunningInterface ==
    [][(SERVER_PRIV \in DOMAIN wgdir /\ SERVER_PRIV \notin DOMAIN wgdir')
       => \A i \in DOMAIN up : up[i].PrivateKey # wgdir[SERVER_PRIV]]_vars

\* the interface a start step acts on
StartTarget == IF pc = "up_start" THEN Head(loc.interfaces) ELSE IfaceName(loc.net[1])

C13_StopOnStoppedIsNoOp ==
    [][(pc = "stop_call" /\ Head(loc.interfaces) \notin DOMAIN up)
       => (/\ pc' = "done" /\ exitCode' = 0 /\ faults' = faults
           /\ UNCHANGED <<up, wgdir, downloads>>)]_vars

\* C13 witness: stop_interface has returned for a provisioned team's interface
\* that was not up when it was called.
C13_Witness ==
    /\ pc = "done" /\ loc.fn = "stop_interface" /\ ~loc.wasUp
    /\ WgConfName(loc.interfaces[1]) \in DOMAIN wgdir

\* the elements of a sequence
Range(f) == {f[i] : i \in DOMAIN f}

\* service = f"openvpn-server@{conf.stem}"
ServiceOfConf(conf) == <<"openvpn-server@">> \o Stem(conf)

C15_UpStopsNothing ==
    [][("up" \in loc.flags) => (DOMAIN up \subseteq DOMAIN up')]_vars

\* the interface definitions on disk
WgConfFiles == {n \in DOMAIN wgdir : GlobWgConf(n)}

\* C16: any two interface definitions on disk differ in listen port, in subnet
\* (gateway address and peer address) and in interface name, and any two client
\* profiles on disk differ in address and in endpoint port.
C16_AllocationsDistinct ==
    /\ \A a, b \in WgConfFiles :
         a # b =>
           /\ wgdir[a].ListenPort # wgdir[b].ListenPort
           /\ wgdir[a].Address # wgdir[b].Address
           /\ wgdir[a].AllowedIPs # wgdir[b].AllowedIPs
           /\ wgdir[a].Iface # wgdir[b].Iface
    /\ \A d, e \in DOMAIN downloads :
         (d # e /\ HasProfile(d) /\ HasProfile(e)) =>
           /\ downloads[d][VPN_CONF].Address # downloads[e][VPN_CONF].Address
           /\ downloads[d][VPN_CONF].Endpoint # downloads[e][VPN_CONF].Endpoint

\* C16 witness: every team that can be registered has its definition and its
\* profile on disk.
C16_Witness ==
    /\ Cardinality(WgConfFiles) = MaxNet
    /\ \A n \in TeamNets : HasProfile(TeamDir(n))

\* the /24 network an address written as <<prefix, octet, host, 24>> lies in
Network24(addr) == <<addr[1], addr[2], 0, 24>>

\* C17: for every team whose definition is on disk its listen port is base_port
\* + net_number and its address lies in <PREFIX>.<net_number>.0/24, and for
\* every team whose profile is on disk the endpoint port is base_port +
\* net_number and the address lies in the same network.
C17_PortAndSubnet ==
    \A n \in TeamNets :
      /\ WgConfName(IfaceName(n)) \in DOMAIN wgdir =>
           LET conf == wgdir[WgConfName(IfaceName(n))] IN
           /\ conf.ListenPort = BASE_PORT + n
           /\ conf.Address[4] = 24 /\ Network24(conf.Address) = <<PREFIX, n, 0, 24>>
           /\ conf.AllowedIPs[4] = 32 /\ Network24(conf.AllowedIPs) = <<PREFIX, n, 0, 24>>
      /\ HasProfile(TeamDir(n)) =>
           LET prof == downloads[TeamDir(n)][VPN_CONF] IN
           /\ prof.Endpoint = <<ENDPOINT, BASE_PORT + n>>
           /\ prof.Address[4] = 24 /\ Network24(prof.Address) = <<PREFIX, n, 0, 24>>

\* C17 witness: a single-team provisioning has returned with the team's
\* definition and profile on disk.
C17_Witness ==
    /\ pc = "done" /\ loc.fn = "mode_single" /\ loc.teamDone
    /\ WgConfName(IfaceName(loc.net[1])) \in DOMAIN wgdir
    /\ HasProfile(TeamDir(loc.net[1]))

\* C18 (as claimed): an invalid net_number never has an interface definition, a
\* team directory (profile and client keys) or an interface that is up.
C18_InvalidNetRejected ==
    \A n \in InvalidNets :
      /\ WgConfName(IfaceName(n)) \notin DOMAIN wgdir
      /\ TeamDir(n) \notin DOMAIN downloads
      /\ IfaceName(n) \notin DOMAIN up

\* C19: an invocation with a selector flag that does not run as root ends
\* at once with exit code 1; a provision-all that gets no team list from the
\* registry (settings missing, connection failed, or no team) ends at once with
\* exit code 1; neither step changes a file or an interface, and every change
\* provision-all makes to a file or an interface is made with the team list
\* obtained.
C19_PreconditionsAbortEarly ==
    [][/\ (pc = "idle" /\ loc'.fn = None /\ loc'.flags # {})
            => (pc' = "done" /\ exitCode' = 1 /\ UNCHANGED <<wgdir, downloads, up>>)
       /\ (pc = "all_db" /\ loc'.nets = <<>>)
            => (pc' = "done" /\ exitCode' = 1 /\ UNCHANGED <<wgdir, downloads, up>>)
       /\ (loc.fn = "mode_all" /\ ~UNCHANGED <<wgdir, downloads, up>>)
            => loc.nets # <<>>]_vars

\* C19 witness: a provision-all not run as root has ended with exit code 1 on a
\* host that holds the files of an earlier provisioning.
C19_Witness ==
    /\ pc = "done" /\ loc.fn = None /\ loc.flags = {"all"} /\ exitCode = 1
    /\ ServerKeysExist /\ up # EmptyFn

\* C20 (as claimed): when an invocation has been ended by an interrupt during a
\* team step, the interface of that team is up if it was up when the step
\* began.
C20_InterruptLeavesRunningUp ==
    (pc = "done" /\ exitCode = 130 /\ loc.net # <<>> /\ loc.wasUp)
    => IfaceName(loc.net[1]) \in DOMAIN up

\* C21: after any sequence of provision, start-all, stop-all and reset-all
\* the FORWARD chain holds each bridge rule at most once, and holds none
\* when no OpenVPN server definition is configured any more (stated for the
\* behaviours in which no command failed).
C21_NoDuplicateOrDanglingRules ==
    faults = 0 =>
        /\ forward <= 1
        /\ (pc = "done" /\ DOMAIN serverdir = {}) => forward = 0

C23_FleetRoutesPerTeam ==
    (pc = "c_mkteam" /\ loc.caller = "mode_all") =>
        LET routes == serverdir[ServerConfName(loc.net[1])].routes IN
        /\ Len(routes) = Len(loc.all_teams)
        /\ \A t \in Range(loc.all_teams) :
             Cardinality({i \in DOMAIN routes :
                             routes[i] = <<VULNBOX_SUBNET, t, 0, 24>>}) = 1
        /\ \A i \in DOMAIN routes : routes[i][4] = 24
        /\ \A i, j \in DOMAIN routes : i < j => routes[i][2] < routes[j][2]

\* C23 witness: full-fleet provisioning with every team registered has written
\* the server definition of the last team.
C23_Witness ==
    /\ pc = "c_mkteam" /\ loc.caller = "mode_all"
    /\ Len(loc.all_teams) = MaxNet
    /\ loc.net[1] = MaxNet

\* C24: provision-one is never given the team set; the server definition it
\* has just written pushes the blanket /16 route and nothing else, differs from
\* every definition full-fleet provisioning can write for that team, and, as
\* after full-fleet provisioning, the file on disk is the rendering of the
\* operation that ran last.
C24_SingleWritesBlanketRoute ==
    /\ loc.caller = "mode_single" => loc.all_teams = <<>>
    /\ pc = "c_mkteam" =>
         LET net == loc.net[1]
             conf == serverdir[ServerConfName(net)] IN
         /\ conf = ServerConf(net, OV_BASE_PORT + net, loc.all_teams)
         /\ loc.caller = "mode_single" =>
              /\ conf.routes = << <<VULNBOX_SUBNET, 0, 0, 16>> >>
              /\ \A S \in SUBSET TeamNets :
                   S # {} => conf # ServerConf(net, OV_BASE_PORT + net, SortedSeq(S))

\* C24 witness: provision-one has just rewritten a definition that full-fleet
\* provisioning had written with per-team routes.
C24_Witness ==
    /\ pc = "c_mkteam" /\ loc.caller = "mode_single"
    /\ \E c \in loc.old_conf : c.routes[1][4] = 24

\* C25: stop-all that finds no interface ends at once with exit code 0: no
\* interface is handed to stop_interface and nothing on disk or in the kernel
\* changes.
C25_StopAllOnEmptyFleet ==
    [][(pc = "down_discover" /\ loc.fn = "bring_all_down"
          /\ get_existing_wg_interfaces = {})
       => /\ pc' = "done" /\ exitCode' = 0
          /\ loc'.interfaces = <<>>
          /\ UNCHANGED <<faults, downloads, wgdir, up, ovvars>>]_vars

\* C25 witness: a stop-all invocation has ended with no interface up, no
\* definition on disk and no command failed.
C25_Witness ==
    /\ pc = "done" /\ loc.fn = "bring_all_down" /\ "down" \in loc.flags
    /\ exitCode = 0 /\ faults = 0
    /\ up = EmptyFn /\ wgdir = EmptyFn

\* a step that creates a file in /etc/wireguard, in SERVER_DIR or in a team
\* directory of the downloads root
CreatesFile ==
    \/ ~(DOMAIN wgdir' \subseteq DOMAIN wgdir)
    \/ ~(DOMAIN serverdir' \subseteq DOMAIN serverdir)
    \/ \E d \in DOMAIN downloads' :
         /\ d \in DOMAIN downloads
         /\ ~(DOMAIN downloads'[d] \subseteq DOMAIN downloads[d])

\* C26: every file a provisioning run creates (server key, client key,
\* server-side definition, client profile) is created readable by its owner
\* only, also in runs that find the server keys or the PKI in place (stated
\* for the behaviours in which no command failed).
C26_CreatedOwnerOnly ==
    [][(faults = 0 /\ CreatesFile) => Readers(loc.umask) = {"owner"}]_vars

\* the steps of generate_team_config and of create_team_config (setup_pki
\* included): the team being processed is loc.net
TeamStepPcs ==
    {"g_srvkeys", "g_wpriv", "g_wpub", "g_stop", "g_mkdir", "g_ckeys",
     "g_wcpriv", "g_wcpub", "g_wconf", "g_wvpn", "g_start",
     "c_dirs", "p_check", "p_ca", "p_dh", "p_ta", "c_srvcert", "c_clicert",
     "c_wserver", "c_mkteam", "c_wclient", "c_wreadme", "c_start"}

\* entry k is in both f and g with the same content, or in neither
SameAt(f, g, k) ==
    /\ (k \in DOMAIN f) <=> (k \in DOMAIN g)
    /\ k \in DOMAIN f => f[k] = g[k]

\* C27: no step of the processing of team n creates, changes or deletes the
\* server-side definition, the client key or the client profile of a team
\* m # n.
C27_OtherTeamsUntouched ==
    [][(pc \in TeamStepPcs) =>
         (\A m \in TeamNets \ {loc.net[1]} :
             /\ SameAt(wgdir, wgdir', WgConfName(IfaceName(m)))
             /\ SameAt(downloads, downloads', TeamDir(m))
             /\ SameAt(serverdir, serverdir', ServerConfName(m))
             /\ SameAt(pki.certs, pki'.certs, ClientCertName(m)))]_vars

\* C27 witness: team 1 has been processed up to its start while the definition
\* and the profile of team 2 are on disk.
C27_Witness ==
    /\ pc = "g_start" /\ loc.net = <<1>>
    /\ WgConfName(IfaceName(2)) \in DOMAIN wgdir
    /\ HasProfile(TeamDir(2))

\* both concurrent runs have ended with exit code 0
BothRunsSucceeded ==
    /\ pc = "done" /\ exitCode = 0
    /\ loc.other # <<>>
    /\ loc.other[1].pc = "done" /\ loc.other[1].exitCode = 0

\* C28: when two provisioning runs that started without a server key have
\* both ended, every client profile carries the public key of the server
\* private key on disk.
C28_RaceLeavesOneServerKey ==
    BothRunsSucceeded =>
        \A d \in DOMAIN downloads :
            HasProfile(d) =>
                downloads[d][VPN_CONF].PublicKey = WgPubkey(wgdir[SERVER_PRIV])

\* C29: every invocation that has started ends, also when an external command
\* never returns.
C29_EveryInvocationEnds ==
    (pc # "idle") ~> (pc = "done")

\* C30: no step of basic_reset changes registration_team, scoring_service,
\* auth_user or django_session, and when basic_reset ends with success the
\* captures, scoreboard rows, status checks, checker states, flags and VPN
\* status checks are gone and current_tick is 0.
C30_BasicResetFrameAndEffect ==
    [][(loc.fn = "basic_reset") =>
         (/\ \A t \in KeptTables : db'.rows[t] = db.rows[t]
          /\ (pc = "r_show" /\ pc' = "done" /\ exitCode' = 0) =>
                /\ \A t \in GameDataTables : db'.rows[t] = {}
                /\ \A g \in db'.gamecontrol : g.current_tick = 0)]_vars

\* C30 witness: a basic reset has ended with success on a database with
\* teams, services, users and sessions.
C30_Witness ==
    /\ pc = "done" /\ loc.fn = "basic_reset" /\ exitCode = 0
    /\ \A t \in KeptTables : db.rows[t] # {}
    /\ db.gamecontrol # {}

\* C31: when full_reset has ended with success there are no teams, no
\* services and no game data, auth_user holds exactly the configured admin, a
\* superuser, and scoring_gamecontrol holds the configured defaults (--set
\* options included).
C31_FullResetLeavesDefaults ==
    (pc = "done" /\ loc.fn = "full_reset" /\ exitCode = 0) =>
        /\ db.rows["registration_team"] = {}
        /\ db.rows["scoring_service"] = {}
        /\ \A t \in GameDataTables : db.rows[t] = {}
        /\ db.rows["auth_user"] = {AdminRow(loc.admin)}
        /\ db.gamecontrol = {loc.config}

\* C32: when a statement of basic_reset or full_reset fails, the tool ends
\* with the database as it was when the connection was opened.
C32_FailedResetRolledBack ==
    (pc = "done" /\ loc.fn \in {"basic_reset", "full_reset"} /\ exitCode # 0) =>
        db = loc.before

C34_StopStartRoundTrip ==
    (pc = "done" /\ exitCode = 0 /\ loc.flags = {"up"} /\ loc.then = <<>>) =>
        \A i \in loc.ran : i \in DOMAIN up

\* C35: when the step of a team whose interface was up and has been stopped
\* fails (the exception leaves generate_team_config), the interface of the
\* team is up when the step returns.
C35_FailedStepRestoresTunnel ==
    [][(/\ pc \in TeamStepPcs
        /\ \E k \in 1..Len(loc.calls) : loc.calls[k] = "stop"
        /\ \/ pc' = "done" /\ exitCode' = 1
           \/ pc' = "all_loop" /\ loc'.failed # loc.failed)
       => (IfaceName(loc.net[1]) \in DOMAIN up')]_vars

\* C36: during the loop of a provision-all run the server private key file
\* stays as it is, the server keys the run passes to every team are the ones
\* it read at its start, their public key is the public key of the server
\* private key on disk, and every client profile the run writes carries it.
C36_OneServerIdentityPerRun ==
    [][(loc.fn = "mode_all" /\ pc \in TeamStepPcs \cup {"all_loop"}) =>
         (/\ SERVER_PRIV \in DOMAIN wgdir
          /\ SERVER_PRIV \in DOMAIN wgdir'
          /\ wgdir'[SERVER_PRIV] = wgdir[SERVER_PRIV]
          /\ loc'.server_keys = loc.server_keys
          /\ loc.server_keys[2] = WgPubkey(wgdir[SERVER_PRIV])
          /\ (pc = "g_wvpn" /\ downloads' # downloads) =>
                downloads'[TeamDir(loc.net[1])][VPN_CONF].PublicKey =
                    WgPubkey(wgdir'[SERVER_PRIV]))]_vars

\* C36 witness: a provision-all run has ended with no team failed and the
\* profiles of two teams on disk.
C36_Witness ==
    /\ pc = "done" /\ loc.fn = "mode_all" /\ exitCode = 0
    /\ loc.teamDone /\ loc.failed = {}
    /\ \A n \in TeamNets : HasProfile(TeamDir(n))
    /\ \A n \in TeamNets :
          downloads[TeamDir(n)][VPN_CONF].PublicKey = WgPubkey(wgdir[SERVER_PRIV])

\* the host holds nothing of the OpenVPN fleet: no unit, no definition, no
\* PKI, no profile, none of the directories
OvTornDown ==
    /\ units = EmptyFn /\ serverdir = EmptyFn /\ pki = PkiInit
    /\ downloads = EmptyFn /\ dirs = {}

\* C37: a reset-all on a host that holds nothing of the fleet changes nothing
\* and ends with exit code 0.
C37_ResetOnTornDownSucceeds ==
    [][(loc.fn = "mode_reset" /\ pc # "done" /\ OvTornDown) =>
         (OvTornDown' /\ (pc' = "done" => exitCode' = 0))]_vars

\* C38: an invocation of the script that selects no operation ends in main
\* with an exit code other than 0 and changes nothing on the host; an
\* invocation that selects one runs that one function until it ends.
C38_NoOperationExitsNonZero ==
    [][/\ (pc = "idle" /\ pc' # "idle" /\ loc'.flags = {} /\ loc'.fn = None) =>
            (/\ pc' = "done" /\ exitCode' # 0
             /\ UNCHANGED <<downloads, wgdir, up>>)
       /\ (pc \notin {"idle", "done"}) => (loc'.fn = loc.fn)]_vars

\* C39: no step of stop-all, start-all or reset-all changes an interface
\* whose name is not wg followed by digits: it stays up with what it loaded,
\* and its definition stays on disk as it is.
C39_ForeignInterfacesUntouched ==
    [][(loc.fn \in {"bring_all_down", "bring_all_up", "reset_all_configs"}) =>
         (/\ \A i \in DOMAIN up :
                ~IsOurIface(i) => (i \in DOMAIN up' /\ up'[i] = up[i])
          /\ \A i \in DOMAIN up :
                (~IsOurIface(i) /\ WgConfName(i) \in DOMAIN wgdir) =>
                   /\ WgConfName(i) \in DOMAIN wgdir'
                   /\ wgdir'[WgConfName(i)] = wgdir[WgConfName(i)])]_vars

====
